---- MODULE Spec2Model ----
(***************************************************************************)
(* Model of the SE1 ephemeris reader (class SwissEphemerisFile): the file  *)
(* image, the cursor, the endian negotiation, the header parse, the        *)
(* segment decoder, the rotation back-transform and the per-body cache.    *)
(*                                                                         *)
(* Numbers.  Bytes are 0..255.  Julian dates, segment lengths and the      *)
(* rotation constants are the small integers the modelled images carry     *)
(* (as real binary64 bit patterns on disk).  Coefficients are exact        *)
(* elements of Z[ceps, seps, u] (see Num below).                           *)
(***************************************************************************)
EXTENDS Integers, Sequences, FiniteSets, TLC

(***************************************************************************)
(* Program constants.                                                      *)
(***************************************************************************)
SEI_FILE_TEST_ENDIAN == 6382179
SEI_CURR_FPOS == -1
SEI_FILE_BIGENDIAN == 0
SEI_FILE_LITENDIAN == 1
SEI_FILE_REORD == 2
SEI_FLG_HELIO == 1
SEI_FLG_ROTATE == 2
SEI_FLG_ELLIPSE == 4
SEI_SUN == 0
SEI_MOON == 1
SEI_MERCURY == 2
SEI_VENUS == 3
SEI_MARS == 4
SEI_JUPITER == 5
SEI_SATURN == 6

(***************************************************************************)
(* Bounds of the model.                                                    *)
(***************************************************************************)
\* evaluate is called with tjd in -1..MaxJd
MaxJd == 5

(***************************************************************************)
(* Arithmetic helpers.                                                     *)
(***************************************************************************)
RECURSIVE Pow(_, _)
Pow(b, e) == IF e <= 0 THEN 1 ELSE b * Pow(b, e - 1)

Abs(n) == IF n < 0 THEN 0 - n ELSE n

\* Math.floor(a / b) on the integers the model carries; JavaScript yields
\* NaN or an infinity for b = 0, which no modelled image produces.
FloorDiv(a, b) == IF b = 0 THEN 0 ELSE IF b > 0 THEN a \div b ELSE (0 - a) \div (0 - b)

\* x & mask for a one-bit mask
BitSet(x, mask) == (x \div mask) % 2 = 1

Reverse(s) == [i \in 1..Len(s) |-> s[Len(s) + 1 - i]]

RECURSIVE Flatten(_)
Flatten(ss) == IF Len(ss) = 0 THEN <<>> ELSE Head(ss) \o Flatten(Tail(ss))

Zeros(n) == [i \in 1..n |-> 0]

(***************************************************************************)
(* Node Buffer readers on a byte sequence b (1-based; b[1] is offset 0).   *)
(***************************************************************************)
\* Buffer.readInt32LE(0): two's complement, little-endian
readInt32LE(b) ==
    b[1] + 256 * b[2] + 65536 * b[3]
      + 16777216 * (IF b[4] >= 128 THEN b[4] - 256 ELSE b[4])

\* Buffer.readUInt32LE(0) for codes below 2^31 (the modelled codes)
readUInt32LE(b) == b[1] + 256 * b[2] + 65536 * b[3] + 16777216 * b[4]

\* Buffer.readInt16LE(0)
readInt16LE(b) == b[1] + 256 * (IF b[2] >= 128 THEN b[2] - 256 ELSE b[2])

\* Buffer.writeInt32LE(v, 0)
writeInt32LE(v) ==
    LET u == IF v < 0 THEN v + 2147483647 + 1 ELSE v
        top == u \div 16777216
    IN  << u % 256, (u \div 256) % 256, (u \div 65536) % 256,
           IF v < 0 THEN top + 128 ELSE top >>

\* Buffer.readDoubleLE(0): IEEE-754 binary64, little-endian, on the patterns
\* whose value is an integer of magnitude below 2^11 with at most five
\* significant bits (sign, 11-bit exponent, top four mantissa bits; the
\* remaining 48 mantissa bits zero).  Other patterns do not occur in the
\* modelled images and read as 0.
readDoubleLE(b) ==
    LET sign == b[8] \div 128
        ex   == (b[8] % 128) * 16 + b[7] \div 16
        m4   == b[7] % 16
        e    == ex - 1023
        low0 == \A i \in 1..6 : b[i] = 0
        num  == (16 + m4) * Pow(2, e)
    IN  IF ~low0 \/ e < 0 \/ e > 10 \/ num % 16 # 0 THEN 0
        ELSE IF sign = 1 THEN 0 - (num \div 16) ELSE num \div 16

(***************************************************************************)
(* The handle.  h is the record of the object's fields:                    *)
(*   buffer, pos, planets, fendian, freord, fileStart, fileEnd             *)
(* plus log, the trace of the calls of read() made by the running method   *)
(* (<<cursor, byte count>> per call, failed ones included).  A method      *)
(* returns [err, h, out]: err = "" and the value in out, or the message of *)
(* the Error thrown and the handle as the throw left it.                    *)
(***************************************************************************)
NoError == ""
ErrHeader == "Invalid ephemeris header"
ErrEOF == "Unexpected EOF"
ErrEndian == "Invalid endianness"
ErrMissing == "Missing ephemeris body"
ErrRange == "ERR_OUT_OF_RANGE"

Ok(h, out) == [err |-> NoError, h |-> h, out |-> out]
Throw(msg, h) == [err |-> msg, h |-> h, out |-> <<>>]

\* an optional field: null, or an array
NULL == <<>>
Some(a) == <<a>>

\* Buffer.slice(from, to): negative offsets count from the end, and both
\* are clamped to the buffer
SliceIndex(n, i) == IF i < 0 THEN (IF n + i < 0 THEN 0 ELSE n + i)
                    ELSE IF i > n THEN n ELSE i

slice(buf, from, to) ==
    LET a == SliceIndex(Len(buf), from)
        b == SliceIndex(Len(buf), to)
    IN  IF b > a THEN SubSeq(buf, a + 1, b) ELSE <<>>

\* Buffer.indexOf("\r\n", from): offset of the first CR LF at or after from
indexOfCRLF(buf, from) ==
    LET hits == {i \in from..(Len(buf) - 2) : buf[i + 1] = 13 /\ buf[i + 2] = 10}
    IN  IF hits = {} THEN -1 ELSE CHOOSE i \in hits : \A j \in hits : i <= j

readLine(h) ==
    LET idx == indexOfCRLF(h.buffer, h.pos)
    IN  IF idx = -1 THEN Throw(ErrHeader, h)
        ELSE Ok([h EXCEPT !.pos = idx + 2], slice(h.buffer, h.pos, idx))

seek(h, pos) == [h EXCEPT !.pos = pos]

\* read handing out what is left of the image, filled up with zero bytes
read_zeroPads(h, size, count) ==
    LET bytes == size * count
        chunk == slice(h.buffer, h.pos, h.pos + bytes)
        hl    == [h EXCEPT !.log = Append(@, <<h.pos, bytes>>)]
    IN  Ok([hl EXCEPT !.pos = @ + bytes], chunk \o Zeros(bytes - Len(chunk)))

read(h, size, count) ==
    LET bytes == size * count
        chunk == slice(h.buffer, h.pos, h.pos + bytes)
        hl    == [h EXCEPT !.log = Append(@, <<h.pos, bytes>>)]
    IN  IF Len(chunk) # bytes THEN Throw(ErrEOF, hl)
        ELSE Ok([hl EXCEPT !.pos = @ + bytes], chunk)

\* r when it is a throw, and otherwise what F makes of it (the rest of the
\* method after a call that may throw)
Then(r, F(_)) == IF r.err # NoError THEN r ELSE F(r)

\* doFread with the reorder flag ignored: every byte is copied in file order
TargetIndex_noReorder(h, size, corrsize, j) ==
    IF size # corrsize
       /\ (  (h.fendian = SEI_FILE_BIGENDIAN /\ h.freord = 0)
          \/ (h.fendian = SEI_FILE_LITENDIAN /\ h.freord # 0))
    THEN j + corrsize - size
    ELSE j

\* doFread that shifts a short item of every big-endian file, reordered or
\* not, to the upper end of its target
TargetIndex_shiftsReordered(h, size, corrsize, j) ==
    LET k == IF h.freord # 0 THEN size - j - 1 ELSE j
    IN  IF size # corrsize
           /\ (  h.fendian = SEI_FILE_BIGENDIAN
              \/ (h.fendian = SEI_FILE_LITENDIAN /\ h.freord # 0))
        THEN k + corrsize - size
        ELSE k

\* the index k of the target that byte j of an item is written to
TargetIndex(h, size, corrsize, j) ==
    LET k == IF h.freord # 0 THEN size - j - 1 ELSE j
    IN  IF size # corrsize
           /\ (  (h.fendian = SEI_FILE_BIGENDIAN /\ h.freord = 0)
              \/ (h.fendian = SEI_FILE_LITENDIAN /\ h.freord # 0))
        THEN k + corrsize - size
        ELSE k

\* the zero-filled target of count items of corrsize bytes
Reordered(h, raw, size, count, corrsize) ==
    [idx \in 1..(count * corrsize) |->
        LET i  == (idx - 1) \div corrsize
            k  == (idx - 1) % corrsize
            js == {j \in 0..(size - 1) : TargetIndex(h, size, corrsize, j) = k}
        IN  IF js = {} THEN 0
            ELSE raw[i * size + (CHOOSE j \in js : TRUE) + 1]]

doFread(h, size, count, corrsize, fpos) ==
    Then(read(IF fpos >= 0 THEN seek(h, fpos) ELSE h, size, count),
         LAMBDA r : IF r.h.freord = 0 /\ size = corrsize THEN r
                    ELSE Ok(r.h, Reordered(r.h, r.out, size, count, corrsize)))

readInt(h, size, fpos) ==
    Then(doFread(h, size, 1, 4, fpos), LAMBDA r : Ok(r.h, readInt32LE(r.out)))

readShort(h, fpos) ==
    Then(doFread(h, 2, 1, 2, fpos), LAMBDA r : Ok(r.h, readInt16LE(r.out)))

readDouble(h, fpos) ==
    Then(doFread(h, 8, 1, 8, fpos), LAMBDA r : Ok(r.h, readDoubleLE(r.out)))

\* raw.readDoubleLE(i * 8) for i < count
Doubles(raw, count) ==
    [i \in 1..count |-> readDoubleLE(SubSeq(raw, (i - 1) * 8 + 1, i * 8))]

readDoubleArray(h, count) ==
    Then(doFread(h, 8, count, 8, SEI_CURR_FPOS),
         LAMBDA r : Ok(r.h, Doubles(r.out, count)))

(***************************************************************************)
(* Header parse.                                                           *)
(***************************************************************************)
\* the object right after the constructor's field initialisers
NewHandle(buf) ==
    [buffer |-> buf, pos |-> 0, planets |-> <<>>,
     fendian |-> SEI_FILE_LITENDIAN, freord |-> 0,
     fileStart |-> 0, fileEnd |-> 0, log |-> <<>>]

\* the body record built from the fields read for one body; rmax is held in
\* thousandths (the int read, before the division by 1000.0)
Planet(ipli, lndx0, iflg, ncoe, rmax, constants) ==
    [ipli |-> ipli, lndx0 |-> lndx0, iflg |-> iflg, ncoe |-> ncoe, rmax |-> rmax,
     tfstart |-> constants[1], tfend |-> constants[2], dseg |-> constants[3],
     telem |-> constants[4], prot |-> constants[5], dprot |-> constants[6],
     qrot |-> constants[7], dqrot |-> constants[8], peri |-> constants[9],
     dperi |-> constants[10],
     segp |-> NULL, tseg0 |-> 0, tseg1 |-> 0, neval |-> 0, refep |-> NULL]

\* Map.set(ipli, planet)
MapSet(map, ipli, planet) ==
    [k \in (DOMAIN map) \cup {ipli} |-> IF k = ipli THEN planet ELSE map[k]]

\* the ellipse reference read whole and only its first ncoe doubles kept
readRefep_keepsHalf(h, planet) ==
    IF BitSet(planet.iflg, SEI_FLG_ELLIPSE)
    THEN Then(doFread(h, 8, 2 * planet.ncoe, 8, SEI_CURR_FPOS),
              LAMBDA r : Ok([r.h EXCEPT !.planets =
                                MapSet(@, planet.ipli,
                                       [planet EXCEPT !.refep =
                                           Some(Doubles(r.out, planet.ncoe))])],
                            planet.ipli))
    ELSE Ok([h EXCEPT !.planets = MapSet(@, planet.ipli, planet)], planet.ipli)

\* the end of the body of ipl.forEach: the ellipse reference, and planets.set
readRefep(h, planet) ==
    IF BitSet(planet.iflg, SEI_FLG_ELLIPSE)
    THEN Then(doFread(h, 8, 2 * planet.ncoe, 8, SEI_CURR_FPOS),
              LAMBDA r : Ok([r.h EXCEPT !.planets =
                                MapSet(@, planet.ipli,
                                       [planet EXCEPT !.refep =
                                           Some(Doubles(r.out, 2 * planet.ncoe))])],
                            planet.ipli))
    ELSE Ok([h EXCEPT !.planets = MapSet(@, planet.ipli, planet)], planet.ipli)

\* the body of ipl.forEach for one body id
readPlanet(h, ipli) ==
    Then(readInt(h, 4, SEI_CURR_FPOS), LAMBDA lndx0 :
    Then(readInt(lndx0.h, 1, SEI_CURR_FPOS), LAMBDA iflg :
    Then(readInt(iflg.h, 1, SEI_CURR_FPOS), LAMBDA ncoe :
    Then(readInt(ncoe.h, 4, SEI_CURR_FPOS), LAMBDA rmax :
    Then(readDoubleArray(rmax.h, 10), LAMBDA constants :
    readRefep(constants.h,
              Planet(ipli, lndx0.out, iflg.out, ncoe.out, rmax.out, constants.out)))))))

\* ipl.forEach(...), from the i-th id on
RECURSIVE readPlanets(_, _, _)
readPlanets(h, ipl, i) ==
    IF i > Len(ipl) THEN Ok(h, ipl)
    ELSE Then(readPlanet(h, ipl[i]), LAMBDA r : readPlanets(r.h, ipl, i + 1))

\* the on-disk endian tag, from the four sentinel bytes as read
Fendian(testendian) ==
    IF writeInt32LE(testendian)[1] = SEI_FILE_TEST_ENDIAN \div 16777216
    THEN SEI_FILE_BIGENDIAN
    ELSE SEI_FILE_LITENDIAN

\* the negotiation without the test of the byte-reversed sentinel: any value
\* that is not the sentinel is taken for the sentinel of the other byte order
negotiate_noSwapCheck(h, testendian) ==
    IF testendian # SEI_FILE_TEST_ENDIAN
    THEN Ok([h EXCEPT !.freord = SEI_FILE_REORD, !.fendian = Fendian(testendian)],
            testendian)
    ELSE Ok([h EXCEPT !.fendian = Fendian(testendian)], testendian)

\* the endian negotiation once the four sentinel bytes at the cursor are
\* read as testendian and the cursor has moved past them
negotiate(h, testendian) ==
    IF testendian # SEI_FILE_TEST_ENDIAN
    THEN IF readInt32LE(Reverse(slice(h.buffer, h.pos - 4, h.pos))) # SEI_FILE_TEST_ENDIAN
         THEN Throw(ErrEndian, [h EXCEPT !.freord = SEI_FILE_REORD])
         ELSE Ok([h EXCEPT !.freord = SEI_FILE_REORD, !.fendian = Fendian(testendian)],
                 testendian)
    ELSE Ok([h EXCEPT !.fendian = Fendian(testendian)], testendian)

\* buffer.readInt32LE(pos) on the sentinel (a RangeError past the end of
\* the buffer), pos += 4, and the negotiation
readSentinel(h) ==
    IF h.pos + 4 > Len(h.buffer) THEN Throw(ErrRange, h)
    ELSE negotiate([h EXCEPT !.pos = @ + 4],
                   readInt32LE(slice(h.buffer, h.pos, h.pos + 4)))

\* the number of bodies and the on-disk width of a body id, from nplan
BodyCount(nplan) == IF nplan > 256 THEN nplan % 256 ELSE nplan
BodyIdBytes_alwaysTwo(nplan) == 2
BodyIdBytes(nplan) == IF nplan > 256 THEN 4 ELSE 2

\* iplRaw.readInt32LE(i * 4) for i < nplan
BodyList(iplRaw, nplan) ==
    [i \in 1..nplan |-> readInt32LE(SubSeq(iplRaw, (i - 1) * 4 + 1, i * 4))]

readConst(h) ==
    Then(readLine(h), LAMBDA l1 :
    Then(readLine(l1.h), LAMBDA l2 :
    Then(readLine(l2.h), LAMBDA l3 :
    Then(readSentinel(l3.h), LAMBDA s :
    Then(readInt(s.h, 4, SEI_CURR_FPOS), LAMBDA flen :
    Then(readInt(flen.h, 4, flen.h.pos), LAMBDA denum :
    Then(readDouble(denum.h, SEI_CURR_FPOS), LAMBDA t0 :
    Then(readDouble([t0.h EXCEPT !.fileStart = t0.out], SEI_CURR_FPOS), LAMBDA t1 :
    Then(readShort([t1.h EXCEPT !.fileEnd = t1.out], SEI_CURR_FPOS), LAMBDA nplan :
    Then(doFread(nplan.h, BodyIdBytes(nplan.out), BodyCount(nplan.out), 4,
                 SEI_CURR_FPOS), LAMBDA iplRaw :
    Then(readInt(iplRaw.h, 4, SEI_CURR_FPOS), LAMBDA crc :
    Then(readDoubleArray(crc.h, 5), LAMBDA constants :
    readPlanets(constants.h, BodyList(iplRaw.out, BodyCount(nplan.out)), 1)))))))))))))

(***************************************************************************)
(* Num: the coefficients, exactly.  A decoded coefficient is a rational    *)
(* multiple of rmax / (2 * 1e9), the rotation multiplies by the irrational *)
(* constants ceps2000 and seps2000, and the ellipse reference adds plain   *)
(* doubles.  A Num is a polynomial with integer coefficients in ceps, seps *)
(* and the unit u = 1 / (256 * 2e12): a function from the monomials        *)
(* <<power of ceps, power of seps, power of u>> with a non-zero            *)
(* coefficient to that coefficient.  Every Num is held doubled, so that    *)
(* the final halving of echeb is exact.                                    *)
(***************************************************************************)
NZero == <<>>

NGet(a, m) == IF m \in DOMAIN a THEN a[m] ELSE 0

NMono(m, n) == IF n = 0 THEN NZero ELSE [k \in {m} |-> n]

NAdd(a, b) ==
    [m \in {k \in (DOMAIN a) \cup (DOMAIN b) : NGet(a, k) + NGet(b, k) # 0} |->
        NGet(a, m) + NGet(b, m)]

NScale(k, a) == IF k = 0 THEN NZero ELSE [m \in DOMAIN a |-> k * a[m]]

NSub(a, b) == NAdd(a, NScale(-1, b))

\* a * ceps2000 and a * seps2000
NCeps(a) ==
    [m \in {<<k[1] + 1, k[2], k[3]>> : k \in DOMAIN a} |-> a[<<m[1] - 1, m[2], m[3]>>]]
NSeps(a) ==
    [m \in {<<k[1], k[2] + 1, k[3]>> : k \in DOMAIN a} |-> a[<<m[1], m[2] - 1, m[3]>>]]

\* a * 0.5 (every stored Num is even)
NHalf(a) == [m \in DOMAIN a |-> a[m] \div 2]

\* the double r
NPlain(r) == NMono(<<0, 0, 0>>, 2 * r)

\* q * rmax / 2 / 1e9 for q = n / 256 and rmax in thousandths
NCoef(n, rmax) == NMono(<<0, 0, 1>>, 2 * n * rmax)

(***************************************************************************)
(* Segment decoder.                                                        *)
(***************************************************************************)
\* planet.segp[idx] = v on the array a (offsets from 0); a write at the end
\* of a JavaScript array extends it
ArraySet(a, idx, v) ==
    IF idx < Len(a) THEN SubSeq(a, 1, idx) \o <<v>> \o SubSeq(a, idx + 2, Len(a))
    ELSE a \o [i \in 1..(idx - Len(a)) |-> NZero] \o <<v>>

RECURSIVE ArrayStore(_, _, _)
\* the writes segp[idbl] = vals[1], segp[idbl + 1] = vals[2], ...
ArrayStore(a, idbl, vals) ==
    IF Len(vals) = 0 THEN a
    ELSE ArrayStore(ArraySet(a, idbl, Head(vals)), idbl + 1, Tail(vals))

\* longs.readUInt32LE(m * 4) as its two 16-bit halves, val = 65536 hi + lo
\* (a code may be as large as 2^32 - 1)
readUInt32Halves(b) == [hi |-> b[3] + 256 * b[4], lo |-> b[1] + 256 * b[2]]

\* (val + s) / 2 computed on 32 bits, where 2^32 - 1 + 1 wraps to 0
HalfOf_wraps(val, s) ==
    LET low == ((val.hi % 2) * 65536 + val.lo + s) \div 2
    IN  IF val.hi = 65535 /\ val.lo + s = 65536 THEN [hi |-> 0, lo |-> 0]
        ELSE [hi |-> val.hi \div 2 + low \div 65536, lo |-> low % 65536]

\* (val + s) / 2 for s in {0, 1} and val + s even: exact in binary64
HalfOf(val, s) ==
    LET low == ((val.hi % 2) * 65536 + val.lo + s) \div 2
    IN  [hi |-> val.hi \div 2 + low \div 65536, lo |-> low % 65536]

\* classes 0..3: the sign and the magnitude, in units of rmax / 2 / 1e9,
\* of the unsigned code val (val & 1 is the lowest bit of val)
Decode03(val) ==
    IF val.lo % 2 = 1 THEN [neg |-> TRUE, mag |-> HalfOf(val, 1)]
    ELSE [neg |-> FALSE, mag |-> HalfOf(val, 0)]

\* classes 0..3: the coefficient of the unsigned code val
Coef03(val, rmax) ==
    LET d == Decode03(val)
        m == 65536 * d.mag.hi + d.mag.lo
    IN  NCoef(IF d.neg THEN 0 - 256 * m ELSE 256 * m, rmax)

\* classes 4 and 5: the coefficient decoded at mask o from what is left of
\* the byte (value), with JavaScript's floating division by o and by 2, in
\* units of rmax / 2 / 1e9 / 256
QuotientPacked(value, o) ==
    IF BitSet(value, o) THEN 0 - (256 * (value + o)) \div (2 * o)
    ELSE (256 * value) \div (2 * o)

\* classes 4 and 5: the mask of the n-th sub-field of a byte (n from 0) and
\* what is left of the byte when it is reached (value %= o after each one)
MaskAt(o0, step, n) == o0 \div Pow(step, n)
ValueAt(byte, o0, step, n) ==
    IF n = 0 THEN byte ELSE byte % MaskAt(o0, step, n - 1)

\* classes 4 (o0 = 16, step = 16, 2 per byte) and 5 (o0 = 64, step = 4, 4 per
\* byte): the nsize coefficients of the widened bytes longs, in units of
\* rmax / 2 / 1e9 / 256
PackedQuotients(longs, nsize, per, o0, step) ==
    [j \in 1..nsize |->
        LET m     == (j - 1) \div per
            n     == (j - 1) % per
            byte  == readUInt32LE(SubSeq(longs, m * 4 + 1, m * 4 + 4))
        IN  QuotientPacked(ValueAt(byte, o0, step, n), MaskAt(o0, step, n))]

PackedCoefs(longs, nsize, per, o0, step, rmax) ==
    [j \in 1..nsize |-> NCoef(PackedQuotients(longs, nsize, per, o0, step)[j], rmax)]

\* the coefficients of class i with count n, from the widened items longs
ClassCoefs(longs, i, n, rmax) ==
    IF i < 4
    THEN [m \in 1..n |->
            Coef03(readUInt32Halves(SubSeq(longs, (m - 1) * 4 + 1, m * 4)), rmax)]
    ELSE IF i = 4 THEN PackedCoefs(longs, n, 2, 16, 16, rmax)
    ELSE PackedCoefs(longs, n, 4, 64, 4, rmax)

\* every class read as items of one byte
ClassSize_oneByte(i) == 1

\* the on-disk item size and the item count of class i with count n
ClassSize(i) == IF i < 4 THEN 4 - i ELSE 1
ClassItems(i, n) ==
    IF i < 4 THEN n ELSE IF i = 4 THEN (n + 1) \div 2 ELSE (n + 3) \div 4

\* one class i with count n > 0 of one coordinate; out is the new idbl
readClass(h, ipli, i, n, idbl) ==
    Then(doFread(h, ClassSize(i), ClassItems(i, n), 4, SEI_CURR_FPOS),
         LAMBDA r :
            Ok([r.h EXCEPT !.planets[ipli].segp =
                    Some(ArrayStore(@[1], idbl,
                                    ClassCoefs(r.out, i, n, r.h.planets[ipli].rmax)))],
               idbl + n))

\* the counts of a long header without the last of the six
NSize_dropsLast(c, extra) ==
    IF Len(extra) = 2
    THEN << c[2] \div 16, c[2] % 16, extra[1] \div 16, extra[1] % 16,
            extra[2] \div 16, 0 >>
    ELSE << c[1] \div 16, c[1] % 16, c[2] \div 16, c[2] % 16 >>

\* the counts of a coordinate header c (2 bytes) and extra (2 more, or <<>>)
NSize(c, extra) ==
    IF Len(extra) = 2
    THEN << c[2] \div 16, c[2] % 16, extra[1] \div 16, extra[1] % 16,
            extra[2] \div 16, extra[2] % 16 >>
    ELSE << c[1] \div 16, c[1] % 16, c[2] \div 16, c[2] % 16 >>

\* for (i = 0; i < nsizes; i += 1), from class i on; out is the new idbl
RECURSIVE readClasses(_, _, _, _, _)
readClasses(h, ipli, nsize, i, idbl) ==
    IF i >= Len(nsize) THEN Ok(h, idbl)
    ELSE IF nsize[i + 1] = 0 THEN readClasses(h, ipli, nsize, i + 1, idbl)
    ELSE Then(readClass(h, ipli, i, nsize[i + 1], idbl),
              LAMBDA r : readClasses(r.h, ipli, nsize, i + 1, r.out))

\* the coordinate header: 2 bytes, and 2 more when bit 7 of the first is
\* set; out is the counts
readCoordHeader(h) ==
    Then(doFread(h, 1, 2, 1, SEI_CURR_FPOS), LAMBDA c :
        IF BitSet(c.out[1], 128)
        THEN Then(doFread(c.h, 1, 2, 1, SEI_CURR_FPOS),
                  LAMBDA extra : Ok(extra.h, NSize(c.out, extra.out)))
        ELSE Ok(c.h, NSize(c.out, <<>>)))

\* one coordinate: its header, then its classes
readCoord(h, ipli, icoord) ==
    Then(readCoordHeader(h),
         LAMBDA nsize : readClasses(nsize.h, ipli, nsize.out, 0,
                                    icoord * nsize.h.planets[ipli].ncoe))

\* for (icoord = 0; icoord < 3; icoord += 1), from icoord on
RECURSIVE readCoords(_, _, _)
readCoords(h, ipli, icoord) ==
    IF icoord >= 3 THEN Ok(h, <<>>)
    ELSE Then(readCoord(h, ipli, icoord), LAMBDA r : readCoords(r.h, ipli, icoord + 1))

(***************************************************************************)
(* Rotation back-transform.  The trigonometry and the square roots are     *)
(* exact on the constants the modelled images carry: rates of 0, angles of *)
(* 0, and qav^2 + pav^2 = 1 with qav, pav in {-1, 0, 1}.                    *)
(***************************************************************************)
\* Math.cos and Math.sin at the angle 0 (the only one modelled)
Cos(a) == IF a = 0 THEN 1 ELSE 0
Sin(a) == 0

\* Math.hypot on a vector whose length is an integer
Hypot(v) ==
    LET ss == v[1] * v[1] + v[2] * v[2] + v[3] * v[3]
    IN  CHOOSE n \in 0..ss : n * n <= ss /\ (n + 1) * (n + 1) > ss

\* tdiff * rate, with tdiff = (tseg0 + dseg / 2 - telem) / 365250.0
TdiffTimes(planet, rate) ==
    FloorDiv((2 * planet.tseg0 + planet.dseg - 2 * planet.telem) * rate, 2 * 365250)

\* <<qav, pav>>
RotAngles(planet) ==
    IF planet.ipli = SEI_MOON
    THEN LET dn == planet.prot + TdiffTimes(planet, planet.dprot)
             q  == planet.qrot + TdiffTimes(planet, planet.dqrot)
         IN  << q * Cos(dn), q * Sin(dn) >>
    ELSE << planet.qrot + TdiffTimes(planet, planet.dqrot),
            planet.prot + TdiffTimes(planet, planet.dprot) >>

\* <<uix, uiyn, uizn>>
RotBasis(qav, pav) ==
    LET den  == 1 + qav * qav + pav * pav
        uiz  == << FloorDiv(2 * pav, den), FloorDiv(0 - 2 * qav, den),
                   FloorDiv(1 - qav * qav - pav * pav, den) >>
        uiy  == << 0 - uiz[2], uiz[1], 0 >>
        uizn == [i \in 1..3 |-> FloorDiv(uiz[i], Hypot(uiz))]
        uiyn == [i \in 1..3 |-> FloorDiv(uiy[i], Hypot(uiy))]
        uix  == << uiyn[2] * uizn[3] - uiyn[3] * uizn[2],
                   uiyn[3] * uizn[1] - uiyn[1] * uizn[3],
                   uiyn[1] * uizn[2] - uiyn[2] * uizn[1] >>
    IN  << uix, uiyn, uizn >>

\* the coefficient triples x[i] (i from 1), with the ellipse reference added
RotInput(planet) ==
    LET nco  == planet.ncoe
        segp == planet.segp[1]
        om   == planet.peri + TdiffTimes(planet, planet.dperi)
        com  == Cos(om)
        som  == Sin(om)
    IN  [i \in 1..nco |->
            IF BitSet(planet.iflg, SEI_FLG_ELLIPSE) /\ planet.refep # NULL
            THEN LET refep == planet.refep[1]
                 IN  << NAdd(segp[i],
                             NSub(NScale(com, NPlain(refep[i])),
                                  NScale(som, NPlain(refep[i + nco])))),
                        NAdd(segp[i + nco],
                             NAdd(NScale(com, NPlain(refep[i + nco])),
                                  NScale(som, NPlain(refep[i])))),
                        segp[i + 2 * nco] >>
            ELSE << segp[i], segp[i + nco], segp[i + 2 * nco] >>]

\* row r of the basis applied to the triple x
RotRow(basis, r, x) ==
    NAdd(NScale(basis[1][r], x[1]),
         NAdd(NScale(basis[2][r], x[2]), NScale(basis[3][r], x[3])))

\* the rotation of the triple x into the basis, then by the J2000 obliquity
RotTriple(basis, x) ==
    << RotRow(basis, 1, x),
       NAdd(NCeps(RotRow(basis, 2, x)), NSeps(RotRow(basis, 3, x))),
       NAdd(NScale(-1, NSeps(RotRow(basis, 2, x))), NCeps(RotRow(basis, 3, x))) >>

\* the array segp with the rotated triples rot written back
RotStore(segp, nco, rot) ==
    [idx \in 1..Len(segp) |->
        IF idx <= nco THEN rot[idx][1]
        ELSE IF idx <= 2 * nco THEN rot[idx - nco][2]
        ELSE IF idx <= 3 * nco THEN rot[idx - 2 * nco][3]
        ELSE segp[idx]]

\* the triples x rotated into the basis of the angles qp
RotAll(qp, x) == [i \in 1..Len(x) |-> RotTriple(RotBasis(qp[1], qp[2]), x[i])]

\* the planet with segp rotated in place
rotBack(planet) ==
    [planet EXCEPT !.segp =
        Some(RotStore(@[1], planet.ncoe, RotAll(RotAngles(planet), RotInput(planet))))]

(***************************************************************************)
(* Segment locator, Chebyshev evaluator and the position API.              *)
(***************************************************************************)
SegmentIndex(planet, tjd) == FloorDiv(tjd - planet.tfstart, planet.dseg)

\* a window that is set only when the body has no segment cached
Window_keepsCached(planet, iseg) ==
    IF planet.segp # NULL THEN planet
    ELSE [planet EXCEPT !.tseg0 = planet.tfstart + iseg * planet.dseg,
                        !.tseg1 = planet.tfstart + iseg * planet.dseg + planet.dseg]

\* planet.tseg0 and planet.tseg1 set from iseg
Window(planet, iseg) ==
    [planet EXCEPT !.tseg0 = planet.tfstart + iseg * planet.dseg,
                   !.tseg1 = planet.tfstart + iseg * planet.dseg + planet.dseg]

SetWindow(h, ipli, iseg) == [h EXCEPT !.planets[ipli] = Window(@, iseg)]

\* the zero fill done on one array shared by all bodies: every body's segp
\* is replaced
ClearSegp_allBodies(h, ipli) ==
    [h EXCEPT !.planets =
        [b \in DOMAIN h.planets |->
            [h.planets[b] EXCEPT !.segp =
                Some([i \in 1..(h.planets[ipli].ncoe * 3) |-> NZero])]]]

\* planet.segp = Array(nco * 3).fill(0)
ClearSegp(h, ipli) ==
    [h EXCEPT !.planets[ipli].segp =
        Some([i \in 1..(h.planets[ipli].ncoe * 3) |-> NZero])]

\* planet.neval = planet.ncoe
SetNeval(planet) == [planet EXCEPT !.neval = planet.ncoe]

\* the end of readSegment with the rotation applied a second time
finishSegment_rotatesTwice(h, ipli) ==
    IF BitSet(h.planets[ipli].iflg, SEI_FLG_ROTATE)
    THEN [h EXCEPT !.planets[ipli] = rotBack(rotBack(SetNeval(@)))]
    ELSE [h EXCEPT !.planets[ipli] = SetNeval(@)]

\* the end of readSegment, after the three coordinates are decoded
finishSegment(h, ipli) ==
    IF BitSet(h.planets[ipli].iflg, SEI_FLG_ROTATE)
    THEN [h EXCEPT !.planets[ipli] = rotBack(SetNeval(@))]
    ELSE [h EXCEPT !.planets[ipli] = SetNeval(@)]

\* readSegment from the read of the index entry on
readSegmentAt(h, ipli, iseg) ==
    Then(readInt(h, 3, h.planets[ipli].lndx0 + iseg * 3), LAMBDA fpos :
    Then(readCoords(ClearSegp(seek(fpos.h, fpos.out), ipli), ipli, 0), LAMBDA r :
    Ok(finishSegment(r.h, ipli), <<>>)))

readSegment(h, ipli, tjd) ==
    IF ipli \notin DOMAIN h.planets THEN Throw(ErrMissing, h)
    ELSE readSegmentAt(SetWindow(h, ipli, SegmentIndex(h.planets[ipli], tjd)),
                       ipli, SegmentIndex(h.planets[ipli], tjd))

\* echeb(x, coef, ncf), j counting down from j to 0 (coef offsets from 0)
RECURSIVE Clenshaw(_, _, _, _, _, _)
Clenshaw(x2, coef, j, br, brp2, brpp) ==
    IF j < 0 THEN << br, brp2 >>
    ELSE Clenshaw(x2, coef, j - 1,
                  NAdd(NSub(NScale(x2, br), brpp), coef[j + 1]), brpp, br)

\* br * 0.5, without the term two steps back
ClenshawResult_noSubtract(b) == NHalf(b[1])

\* (br - brp2) * 0.5
ClenshawResult(b) == NHalf(NSub(b[1], b[2]))

echeb(x, coef, ncf) ==
    ClenshawResult(Clenshaw(x * 2, coef, ncf - 1, NZero, NZero, NZero))

\* the cache test with the upper end of the window excluded
NeedsDecode_openWindow(planet, tjd) ==
    planet.segp = NULL \/ tjd < planet.tseg0 \/ tjd >= planet.tseg1

\* the cache test of evaluate
NeedsDecode(planet, tjd) ==
    planet.segp = NULL \/ tjd < planet.tseg0 \/ tjd > planet.tseg1

\* ((tjd - tseg0) / dseg) * 2 - 1, an integer for dseg in {1, 2}
ChebArg(planet, tjd) == FloorDiv(2 * (tjd - planet.tseg0), planet.dseg) - 1

\* the three echeb calls on the cached coefficients
Values(planet, tjd) ==
    [i \in 1..3 |->
        echeb(ChebArg(planet, tjd),
              slice(planet.segp[1], (i - 1) * planet.ncoe,
                    (i - 1) * planet.ncoe + planet.ncoe),
              planet.neval)]

\* evaluate answering an unknown body the way getIfFlags does, with zeros
evaluate_zeroForUnknown(h, ipli, tjd) ==
    IF ipli \notin DOMAIN h.planets THEN Ok(h, << NZero, NZero, NZero >>)
    ELSE Then(IF NeedsDecode(h.planets[ipli], tjd) THEN readSegment(h, ipli, tjd)
              ELSE Ok(h, <<>>),
              LAMBDA r : Ok(r.h, Values(r.h.planets[ipli], tjd)))

evaluate(h, ipli, tjd) ==
    IF ipli \notin DOMAIN h.planets THEN Throw(ErrMissing, h)
    ELSE Then(IF NeedsDecode(h.planets[ipli], tjd) THEN readSegment(h, ipli, tjd)
              ELSE Ok(h, <<>>),
              LAMBDA r : Ok(r.h, Values(r.h.planets[ipli], tjd)))

getIfFlags(h, ipli) ==
    IF ipli \in DOMAIN h.planets THEN Ok(h, h.planets[ipli].iflg) ELSE Ok(h, 0)

(***************************************************************************)
(* The file images the model opens.  An image is laid out as the format    *)
(* prescribes: three banner lines, the sentinel, the file constants, the   *)
(* body headers, then the index tables (one 3-byte entry per segment, the  *)
(* tables adjacent, two unused entries before the first and after the last *)
(* that point past the end of the file), then the segment payloads.  be    *)
(* selects the byte order every integer, double and multi-byte code is     *)
(* written in.                                                             *)
(***************************************************************************)
IntBytes(v, w, be) ==
    LET le == [i \in 1..w |-> (v \div Pow(256, i - 1)) % 256]
    IN  IF be THEN Reverse(le) ELSE le

\* binary64 of an integer v with |v| < 32
DoubleBytes(v, be) ==
    LET a  == Abs(v)
        e  == CHOOSE k \in 0..4 : Pow(2, k) <= a /\ a < Pow(2, k + 1)
        m4 == (a * 16) \div Pow(2, e) - 16
        ex == 1023 + e
        le == IF v = 0 THEN Zeros(8)
              ELSE << 0, 0, 0, 0, 0, 0, (ex % 16) * 16 + m4,
                      (IF v < 0 THEN 128 ELSE 0) + ex \div 16 >>
    IN  IF be THEN Reverse(le) ELSE le

RECURSIVE SumOf(_)
SumOf(s) == IF Len(s) = 0 THEN 0 ELSE Head(s) + SumOf(Tail(s))

\* a payload is a sequence of items <<width, value>>
PayloadBytes(items, be) ==
    Flatten([i \in 1..Len(items) |-> IntBytes(items[i][2], items[i][1], be)])
PayloadLen(items) == SumOf([i \in 1..Len(items) |-> items[i][1]])

\* The planet file: body 0 (not rotated) and body 4 (heliocentric, rotated,
\* with an ellipse reference), two segments of two days each from day 0.
\* Payload items: a coordinate header is two (or four) 1-byte items, then
\* the codes of its classes.
PlanetBodies ==
    << [ipli |-> SEI_SUN, iflg |-> 0, ncoe |-> 2, rmax |-> 5,
        c |-> <<0, 4, 2, 0, 0, 0, 0, 0, 0, 0>>, refep |-> <<>>,
        segs |-> <<
          \* x: classes 2 and 3; y: class 3 twice; z: classes 1 and 3
          << <<1, 0>>, <<1, 17>>, <<2, 260>>, <<1, 3>>,
             <<1, 0>>, <<1, 2>>, <<1, 2>>, <<1, 5>>,
             <<1, 1>>, <<1, 1>>, <<3, 513>>, <<1, 4>> >>,
          \* x: classes 0 and 3; y: class 4 (long header); z: class 5
          << <<1, 16>>, <<1, 1>>, <<4, 258>>, <<1, 7>>,
             <<1, 128>>, <<1, 0>>, <<1, 0>>, <<1, 32>>, <<1, 156>>,
             <<1, 128>>, <<1, 0>>, <<1, 0>>, <<1, 2>>, <<1, 180>> >> >>],
       [ipli |-> SEI_MARS, iflg |-> 7, ncoe |-> 2, rmax |-> 3,
        c |-> <<0, 4, 2, 0, 1, 0, 0, 0, 0, 0>>, refep |-> <<1, 0, 2, 3>>,
        segs |-> <<
          << <<1, 0>>, <<1, 2>>, <<1, 6>>, <<1, 1>>,
             <<1, 0>>, <<1, 32>>, <<2, 515>>, <<2, 8>>,
             <<1, 0>>, <<1, 2>>, <<1, 9>>, <<1, 10>> >>,
          << <<1, 0>>, <<1, 2>>, <<1, 3>>, <<1, 12>>,
             <<1, 0>>, <<1, 2>>, <<1, 14>>, <<1, 5>>,
             <<1, 0>>, <<1, 17>>, <<2, 770>>, <<1, 11>> >> >>] >>

\* The moon file: body 1 (rotated), two segments of two days each from day 2.
MoonBodies ==
    << [ipli |-> SEI_MOON, iflg |-> 2, ncoe |-> 2, rmax |-> 2,
        c |-> <<2, 6, 2, 0, 0, 0, 1, 0, 0, 0>>, refep |-> <<>>,
        segs |-> <<
          << <<1, 0>>, <<1, 17>>, <<2, 1026>>, <<1, 1>>,
             <<1, 0>>, <<1, 2>>, <<1, 4>>, <<1, 7>>,
             <<1, 0>>, <<1, 2>>, <<1, 8>>, <<1, 13>> >>,
          << <<1, 0>>, <<1, 2>>, <<1, 5>>, <<1, 6>>,
             <<1, 1>>, <<1, 1>>, <<3, 66051>>, <<1, 2>>,
             <<1, 0>>, <<1, 2>>, <<1, 15>>, <<1, 16>> >> >>] >>

Bodies(file) == IF file = "moon" THEN MoonBodies ELSE PlanetBodies

Banner == << 83, 13, 10, 69, 13, 10, 49, 13, 10 >>

BodyHeaderLen(b) ==
    4 + 1 + 1 + 4 + 80 + (IF BitSet(b.iflg, SEI_FLG_ELLIPSE) THEN 16 * b.ncoe ELSE 0)

HeaderLen(bodies) ==
    Len(Banner) + 4 + 4 + 4 + 8 + 8 + 2 + 2 * Len(bodies) + 4 + 40
      + SumOf([i \in 1..Len(bodies) |-> BodyHeaderLen(bodies[i])])

\* offsets of body i's index table and of its segment s's payload
TableAt(bodies, i) ==
    HeaderLen(bodies) + 6 + 3 * SumOf([k \in 1..(i - 1) |-> Len(bodies[k].segs)])

PayloadsAt(bodies) == TableAt(bodies, Len(bodies) + 1) + 6

SegmentAt(bodies, i, s) ==
    PayloadsAt(bodies)
      + SumOf([k \in 1..(i - 1) |->
                 SumOf([t \in 1..Len(bodies[k].segs) |-> PayloadLen(bodies[k].segs[t])])])
      + SumOf([t \in 1..(s - 1) |-> PayloadLen(bodies[i].segs[t])])

FileLen(bodies) == SegmentAt(bodies, Len(bodies) + 1, 1)

\* an index entry that points past the end of any modelled file
Unused(be) == IntBytes(8388607, 3, be) \o IntBytes(8388607, 3, be)

BodyHeaderBytes(bodies, i, be) ==
    LET b == bodies[i]
    IN  IntBytes(TableAt(bodies, i), 4, be) \o IntBytes(b.iflg, 1, be)
          \o IntBytes(b.ncoe, 1, be) \o IntBytes(b.rmax, 4, be)
          \o Flatten([k \in 1..10 |-> DoubleBytes(b.c[k], be)])
          \o Flatten([k \in 1..Len(b.refep) |-> DoubleBytes(b.refep[k], be)])

\* the image of a file with the bodies given, whose file constants give the
\* range fstart..fend; sent is the sentinel written
FileBytesOf(bodies, fstart, fend, sent, be) ==
    LET n == Len(bodies)
    IN  Banner \o IntBytes(sent, 4, be) \o IntBytes(FileLen(bodies), 4, be)
          \o IntBytes(18, 4, be) \o DoubleBytes(fstart, be) \o DoubleBytes(fend, be)
          \o IntBytes(n, 2, be)
          \o Flatten([i \in 1..n |-> IntBytes(bodies[i].ipli, 2, be)])
          \o IntBytes(0, 4, be)
          \o Flatten([k \in 1..5 |-> DoubleBytes(k, be)])
          \o Flatten([i \in 1..n |-> BodyHeaderBytes(bodies, i, be)])
          \o Unused(be)
          \o Flatten([i \in 1..n |->
                Flatten([s \in 1..Len(bodies[i].segs) |->
                    IntBytes(SegmentAt(bodies, i, s), 3, be)])])
          \o Unused(be)
          \o Flatten([i \in 1..n |->
                Flatten([s \in 1..Len(bodies[i].segs) |->
                    PayloadBytes(bodies[i].segs[s], be)])])

\* the image of the planet or the moon file; sent is the sentinel written
FileBytes(file, sent, be) == FileBytesOf(Bodies(file), 0, 6, sent, be)

\* an image: a file in one byte order, with cut bytes missing at its end
Image(spec) ==
    LET full == FileBytes(spec.file, spec.sent, spec.be)
    IN  SubSeq(full, 1, Len(full) - spec.cut)

\* the sentinels written: the format's, and two that are no sentinel in
\* either byte order
Sentinels == {SEI_FILE_TEST_ENDIAN, SEI_FILE_TEST_ENDIAN + 1, 0}

\* the images a handle is opened on: both files in both byte orders, the
\* moon file also truncated and also with a wrong sentinel
ImageSpecs ==
    {sp \in [file : {"planet", "moon"}, sent : Sentinels, be : BOOLEAN, cut : {0, 1}] :
        /\ sp.file = "planet" => (sp.cut = 0 /\ sp.sent = SEI_FILE_TEST_ENDIAN)
        /\ sp.sent # SEI_FILE_TEST_ENDIAN => sp.cut = 0}

(***************************************************************************)
(* State: one handle (the fields of the SwissEphemerisFile object), its    *)
(* life cycle, and the outcome of the last call made on it.                *)
(*   status : "new" before the constructor ran, "open" once it returned,   *)
(*            "failed" when it threw (no handle exists then)               *)
(*   last   : the last call: op, its arguments, the Error message or "",   *)
(*            the value returned and the trace of its read() calls         *)
(*   mirror : a second handle, on the byte-reversed copy of the image,     *)
(*            driven by the same calls (specification SpecMirror only)     *)
(***************************************************************************)
VARIABLES buffer, pos, planets, fendian, freord, fileStart, fileEnd,
          status, last, mirror

vars == << buffer, pos, planets, fendian, freord, fileStart, fileEnd,
           status, last, mirror >>

\* the object as a record, entering a method
Self ==
    [buffer |-> buffer, pos |-> pos, planets |-> planets, fendian |-> fendian,
     freord |-> freord, fileStart |-> fileStart, fileEnd |-> fileEnd, log |-> <<>>]

\* the object's fields after a method ran
Becomes(h) ==
    /\ buffer' = h.buffer
    /\ pos' = h.pos
    /\ planets' = h.planets
    /\ fendian' = h.fendian
    /\ freord' = h.freord
    /\ fileStart' = h.fileStart
    /\ fileEnd' = h.fileEnd

Outcome(op, ipli, tjd, r) ==
    [op |-> op, ipli |-> ipli, tjd |-> tjd,
     err |-> r.err, out |-> r.out, log |-> r.h.log]

NoCall == [op |-> "none", ipli |-> 0, tjd |-> 0,
           err |-> NoError, out |-> <<>>, log |-> <<>>]

\* the arguments evaluate and getIfFlags are called with
BodyIds == {SEI_SUN, SEI_MOON, SEI_MARS}
Jds == (0 - 1)..MaxJd

\* new SwissEphemerisFile(filePath), on the image buf
construct(buf) == readConst(NewHandle(buf))

StatusAfter(r) == IF r.err = NoError THEN "open" ELSE "failed"

InitHandle(buf) ==
    /\ buffer = buf
    /\ pos = 0
    /\ planets = <<>>
    /\ fendian = SEI_FILE_LITENDIAN
    /\ freord = 0
    /\ fileStart = 0
    /\ fileEnd = 0
    /\ status = "new"
    /\ last = NoCall

Init ==
    /\ \E sp \in ImageSpecs : InitHandle(Image(sp))
    /\ mirror = <<>>

\* the call r made as op(ipli, tjd): the object and the outcome after it
Returns(op, ipli, tjd, r) ==
    /\ Becomes(r.h)
    /\ last' = Outcome(op, ipli, tjd, r)

Construct ==
    /\ status = "new"
    /\ \E r \in {construct(buffer)} :
          /\ Returns("construct", 0, 0, r)
          /\ status' = StatusAfter(r)
    /\ UNCHANGED mirror

Evaluate ==
    /\ status = "open"
    /\ \E ipli \in BodyIds, tjd \in Jds :
          \E r \in {evaluate(Self, ipli, tjd)} : Returns("evaluate", ipli, tjd, r)
    /\ UNCHANGED << status, mirror >>

GetIfFlags ==
    /\ status = "open"
    /\ \E ipli \in BodyIds :
          \E r \in {getIfFlags(Self, ipli)} : Returns("getIfFlags", ipli, 0, r)
    /\ UNCHANGED << status, mirror >>

Next == Construct \/ Evaluate \/ GetIfFlags

Spec == Init /\ [][Next]_vars

(***************************************************************************)
(* SpecMirror: the handle on an image and a second handle on the image of  *)
(* the same file written in the other byte order, each call made on both.  *)
(***************************************************************************)
MirrorOf(sp) == [sp EXCEPT !.be = ~sp.be]

\* the mirror after the call r made on it
Mirrored(op, ipli, tjd, r, st) ==
    [h |-> [r.h EXCEPT !.log = <<>>], status |-> st, last |-> Outcome(op, ipli, tjd, r)]

InitMirror ==
    \E sp \in ImageSpecs :
        /\ InitHandle(Image(sp))
        /\ mirror = [h |-> NewHandle(Image(MirrorOf(sp))), status |-> "new", last |-> NoCall]

ConstructBoth ==
    /\ status = "new"
    /\ \E r \in {construct(buffer)} :
          /\ Returns("construct", 0, 0, r)
          /\ status' = StatusAfter(r)
    /\ \E r \in {construct(mirror.h.buffer)} :
          mirror' = Mirrored("construct", 0, 0, r, StatusAfter(r))

EvaluateBoth ==
    /\ status = "open"
    /\ mirror.status = "open"
    /\ \E ipli \in BodyIds, tjd \in Jds :
          /\ \E r \in {evaluate(Self, ipli, tjd)} : Returns("evaluate", ipli, tjd, r)
          /\ \E r \in {evaluate(mirror.h, ipli, tjd)} :
                mirror' = Mirrored("evaluate", ipli, tjd, r, "open")
    /\ UNCHANGED status

GetIfFlagsBoth ==
    /\ status = "open"
    /\ mirror.status = "open"
    /\ \E ipli \in BodyIds :
          /\ \E r \in {getIfFlags(Self, ipli)} : Returns("getIfFlags", ipli, 0, r)
          /\ \E r \in {getIfFlags(mirror.h, ipli)} :
                mirror' = Mirrored("getIfFlags", ipli, 0, r, "open")
    /\ UNCHANGED status

NextMirror == ConstructBoth \/ EvaluateBoth \/ GetIfFlagsBoth

SpecMirror == InitMirror /\ [][NextMirror]_vars

(***************************************************************************)
(* Properties.  A step of the handle is a call: last' names the call made, *)
(* the unprimed variables are the object before it and the primed ones the *)
(* object after it.                                                        *)
(***************************************************************************)
\* the per-body cache: the fields readSegment assigns
Cache(planet) == << planet.segp, planet.tseg0, planet.tseg1, planet.neval >>

\* the fields of a body record the header parse sets
HeaderFields(planet) ==
    [planet EXCEPT !.segp = NULL, !.tseg0 = 0, !.tseg1 = 0, !.neval = 0]

\* the step is the call evaluate(ipli, tjd) for a body of the file
EvaluateStep == last'.op = "evaluate" /\ last'.ipli \in DOMAIN planets

\* the call read (or tried to read) bytes of the file: a decode was entered
ReadBytes(call) == call.log # <<>>

\* the index entries looked at when a body's cache is compared with the
\* segments of the file: one before and two after the body's own
IndexEntries == (0 - 1)..3

\* the body record after a decode of the segment of index entry iseg that
\* ran to its end on the handle as it is, a one-element set, or {} when
\* that decode throws
CompleteDecodes(ipli, iseg) ==
    LET r == readSegmentAt(SetWindow(Self, ipli, iseg), ipli, iseg)
    IN  IF r.err = NoError THEN {r.h.planets[ipli]} ELSE {}

\* tjd is in the range the header gives for the body
InRange(planet, tjd) == planet.tfstart <= tjd /\ tjd <= planet.tfend

\* C1: when evaluate, called with a jd of the body's range, fails inside the
\* segment decode (index read, header bytes or a coefficient class read),
\* the body's segp, tseg0, tseg1 and neval are what they were before the
\* call.
C1_FailedDecodeKeepsCache ==
    [][(/\ EvaluateStep
        /\ InRange(planets[last'.ipli], last'.tjd)
        /\ last'.err # NoError
        /\ ReadBytes(last'))
          => Cache(planets'[last'.ipli]) = Cache(planets[last'.ipli])]_vars

\* C2: whatever decodes failed before, a vector returned by evaluate for a
\* jd of the body's range is the evaluation at jd of a segment decoded to
\* its end (three coordinates, neval = ncoe, rotation when flagged) whose
\* window contains jd.
C2_VectorFromCompleteSegment ==
    (/\ status = "open"
     /\ last.op = "evaluate"
     /\ last.err = NoError
     /\ InRange(planets[last.ipli], last.tjd))
        => \E iseg \in IndexEntries : \E p \in CompleteDecodes(last.ipli, iseg) :
              /\ p.tseg0 <= last.tjd
              /\ last.tjd <= p.tseg1
              /\ p.neval = p.ncoe
              /\ last.out = Values(p, last.tjd)

\* C3: evaluate with jd below tfstart or above tfend of the body fails: it
\* reads no byte, leaves the cursor and the body records as they were, and
\* returns no vector.
C3_OutOfRangeFailsClean ==
    [][(/\ EvaluateStep
        /\ ~InRange(planets[last'.ipli], last'.tjd))
          => (/\ last'.err # NoError
              /\ ~ReadBytes(last')
              /\ pos' = pos
              /\ planets' = planets)]_vars

\* C4: evaluate for a body id the file does not carry fails, for every jd,
\* with the cursor and every body record left as they were.
C4_UnknownBodyFails ==
    [][(last'.op = "evaluate" /\ last'.ipli \notin DOMAIN planets)
          => (/\ last'.err = ErrMissing
              /\ last'.out = <<>>
              /\ ~ReadBytes(last')
              /\ pos' = pos
              /\ planets' = planets)]_vars

\* an evaluate for an unknown body failed on a handle that holds a decoded
\* segment and whose cursor is inside the segment data
C4_Witness ==
    /\ last.op = "evaluate"
    /\ last.ipli \notin DOMAIN planets
    /\ last.err = ErrMissing
    /\ \E b \in DOMAIN planets : planets[b].segp # NULL /\ pos > planets[b].lndx0

\* C5: evaluate reads the file exactly when the body's cache is absent or
\* jd < tseg0 or jd > tseg1; the header parse leaves every cache absent; a
\* call served by the cache leaves the cursor, segp, tseg0 and tseg1 as
\* they were.
C5_DecodeIffCacheMiss ==
    [][/\ last'.op = "construct"
          => \A b \in DOMAIN planets' : planets'[b].segp = NULL
       /\ EvaluateStep
          => IF \/ planets[last'.ipli].segp = NULL
                \/ last'.tjd < planets[last'.ipli].tseg0
                \/ last'.tjd > planets[last'.ipli].tseg1
             THEN ReadBytes(last')
             ELSE /\ ~ReadBytes(last')
                  /\ pos' = pos
                  /\ Cache(planets'[last'.ipli]) = Cache(planets[last'.ipli])]_vars

\* an evaluate at the upper end of the cached window, served by the cache,
\* on a handle whose last decode moved the cursor
C5_Witness ==
    /\ last.op = "evaluate"
    /\ last.ipli \in DOMAIN planets
    /\ last.err = NoError
    /\ ~ReadBytes(last)
    /\ last.tjd = planets[last.ipli].tseg1

\* C6: each body's segp is absent, or it holds the coefficients of one
\* segment iseg decoded to its end, with tseg0 = tfstart + iseg * dseg and
\* tseg1 = tseg0 + dseg.
C6_CacheIsOneSegment ==
    status = "open" =>
        \A b \in DOMAIN planets :
            \/ planets[b].segp = NULL
            \/ \E iseg \in IndexEntries :
                  /\ planets[b].tseg0 = planets[b].tfstart + iseg * planets[b].dseg
                  /\ planets[b].tseg1 = planets[b].tseg0 + planets[b].dseg
                  /\ \E p \in CompleteDecodes(b, iseg) : planets[b].segp = p.segp

\* the body record after the three coordinates of the segment of tjd are
\* decoded and before the end of readSegment (no rotation applied yet), a
\* one-element set, or {} when the decode throws
Unrotated(h, ipli, tjd) ==
    LET iseg == SegmentIndex(h.planets[ipli], tjd)
        r == Then(readInt(SetWindow(h, ipli, iseg), 3, h.planets[ipli].lndx0 + iseg * 3),
                  LAMBDA fpos : readCoords(ClearSegp(seek(fpos.h, fpos.out), ipli), ipli, 0))
    IN  IF r.err = NoError THEN {r.h.planets[ipli]} ELSE {}

\* C7: a decode that succeeds leaves in segp the decoded coefficients
\* rotated once when the body carries the rotate flag and the decoded
\* coefficients themselves when it does not; a call served by the cache
\* leaves segp as it was.
C7_RotatedOncePerDecode ==
    [][EvaluateStep =>
          /\ (last'.err = NoError /\ ReadBytes(last'))
                => \E raw \in Unrotated(Self, last'.ipli, last'.tjd) :
                      planets'[last'.ipli].segp =
                          IF BitSet(raw.iflg, SEI_FLG_ROTATE)
                          THEN rotBack(SetNeval(raw)).segp
                          ELSE raw.segp
          /\ ~ReadBytes(last')
                => planets'[last'.ipli].segp = planets[last'.ipli].segp]_vars

\* a body with the rotate flag was decoded, the rotation changed its
\* coefficients, and a second rotation would change them again
C7_Witness ==
    /\ last.op = "evaluate"
    /\ last.ipli \in DOMAIN planets
    /\ last.err = NoError
    /\ ReadBytes(last)
    /\ BitSet(planets[last.ipli].iflg, SEI_FLG_ROTATE)
    /\ \E raw \in Unrotated(Self, last.ipli, last.tjd) :
          /\ planets[last.ipli].segp # raw.segp
          /\ planets[last.ipli].segp # rotBack(planets[last.ipli]).segp

C9_ByteOrderTransparent ==
    /\ mirror.status = status
    /\ mirror.last.err = last.err
    /\ mirror.last.out = last.out
    /\ status = "open" =>
          /\ mirror.h.planets = planets
          /\ mirror.h.fileStart = fileStart
          /\ mirror.h.fileEnd = fileEnd

\* the two images differ, exactly one of the handles reorders, and a
\* segment was decoded and evaluated on both
C9_Witness ==
    /\ status = "open"
    /\ mirror.h.buffer # buffer
    /\ (freord = 0) # (mirror.h.freord = 0)
    /\ last.op = "evaluate"
    /\ last.err = NoError
    /\ ReadBytes(last)
    /\ planets[last.ipli].segp # NULL

\* the four sentinel bytes of the image, after the three banner lines
SentinelBytes == SubSeq(buffer, Len(Banner) + 1, Len(Banner) + 4)

\* 0x616263 as four bytes, least significant first
SentinelLE == << 99, 98, 97, 0 >>

\* C10: once the constructor ran: with the sentinel bytes host-endian
\* 0x616263 reorder is unset; with them byte-reversed 0x616263 reorder is
\* set; with any other bytes the constructor failed with the invalid
\* endianness error, the cursor just past the sentinel, nothing read after
\* it, and no handle.
C10_EndianNegotiation ==
    status # "new" =>
        IF SentinelBytes = SentinelLE
        THEN freord = 0 /\ last.err # ErrEndian
        ELSE IF SentinelBytes = Reverse(SentinelLE)
        THEN freord = SEI_FILE_REORD /\ last.err # ErrEndian
        ELSE /\ status = "failed"
             /\ last.err = ErrEndian
             /\ ~ReadBytes(last)
             /\ pos = Len(Banner) + 4
             /\ planets = <<>>

\* the constructor failed on a sentinel that is 0x616263 in neither order
C10_Witness ==
    /\ last.op = "construct"
    /\ status = "failed"
    /\ last.err = ErrEndian
    /\ SentinelBytes # SentinelLE
    /\ SentinelBytes # Reverse(SentinelLE)

(***************************************************************************)
(* SpecHeader: the constructor on images of a one-body file whose header   *)
(* carries any combination of the body and file constants below, the       *)
(* well-formed ones and the others.  evaluate is not called here (a dseg   *)
(* of 0 makes iseg NaN or infinite, which the model does not carry).       *)
(***************************************************************************)
\* the moon file's body with the header fields of f
HeaderBodies(f) ==
    << [MoonBodies[1] EXCEPT !.ncoe = f.ncoe,
                             !.c = << f.tfstart, f.tfend, f.dseg, 0, 0, 0, 1, 0, 0, 0 >>] >>

HeaderFieldSets ==
    [ncoe : {0, 1, 2}, tfstart : {2, 7}, tfend : {6}, dseg : {0 - 2, 0, 2},
     fstart : {0, 3}, fend : {5, 6}, be : BOOLEAN]

HeaderImage(f) ==
    FileBytesOf(HeaderBodies(f), f.fstart, f.fend, SEI_FILE_TEST_ENDIAN, f.be)

InitHeader ==
    /\ \E f \in HeaderFieldSets : InitHandle(HeaderImage(f))
    /\ mirror = <<>>

NextHeader == Construct \/ GetIfFlags

SpecHeader == InitHeader /\ [][NextHeader]_vars

\* C11: once the header parse succeeded, every body record has ncoe >= 1,
\* dseg > 0, tfstart <= tfend, tfstart >= fileStart and tfend <= fileEnd.
C11_HeaderInvariants ==
    status = "open" =>
        \A b \in DOMAIN planets :
            /\ planets[b].ncoe >= 1
            /\ planets[b].dseg > 0
            /\ planets[b].tfstart <= planets[b].tfend
            /\ planets[b].tfstart >= fileStart
            /\ planets[b].tfend <= fileEnd

(***************************************************************************)
(* SpecTruncated: the moon file, in both byte orders, with any number of   *)
(* bytes up to MaxCut missing at its end: the constructor, evaluate and    *)
(* getIfFlags on what is left.                                             *)
(***************************************************************************)
\* the most bytes cut off: the whole moon file
MaxCut == 220

TruncatedSpecs ==
    [file : {"moon"}, sent : {SEI_FILE_TEST_ENDIAN}, be : BOOLEAN, cut : 0..MaxCut]

InitTruncated ==
    /\ \E sp \in TruncatedSpecs : InitHandle(Image(sp))
    /\ mirror = <<>>

SpecTruncated == InitTruncated /\ [][Next]_vars

\* the read() call <<cursor, byte count>> asks for bytes past the end of
\* the image
PastEnd(rd) == rd[1] + rd[2] > Len(buffer)

\* C12: a call in which a read asks for bytes past the end of the image
\* throws at that read and returns no value; and the constructor on an
\* image that ends inside the constant area (banner, sentinel, file
\* constants, body headers) fails and leaves no handle.
C12_ShortReadFails ==
    /\ \A i \in 1..Len(last.log) :
          PastEnd(last.log[i]) =>
              /\ last.err = ErrEOF
              /\ last.out = <<>>
              /\ i = Len(last.log)
    /\ (status # "new" /\ Len(buffer) < HeaderLen(MoonBodies)) =>
          /\ status = "failed"
          /\ last.err \in {ErrHeader, ErrRange, ErrEOF}

\* the constructor failed on an image that ends inside a body header, at a
\* read that asked for more bytes than are left
C12_Witness ==
    /\ status = "failed"
    /\ Len(buffer) < HeaderLen(MoonBodies)
    /\ Len(buffer) > Len(Banner) + 4
    /\ last.err = ErrEOF
    /\ last.log # <<>>
    /\ PastEnd(last.log[Len(last.log)])

(***************************************************************************)
(* SpecLongitude: the two cached handles of the service (ephemerisCache:   *)
(* the planet file in the handle variables, the moon file in mirror) and   *)
(* getPlanetLongitude on them.  A longitude is kept as the projection it   *)
(* is of: the vector handed to toEclipticLongitude and the date.           *)
(***************************************************************************)
toEclipticLongitude(vector, jd) == [of |-> vector, at |-> jd]

\* earthVec.map((v) => -v)
Negated(v) == [i \in 1..3 |-> NScale(0 - 1, v[i])]

\* a geocentric vector that forgets the position of body 0
Geocentric_noSubtract(planetVec, earthVec) == planetVec

\* planetVec.map((v, i) => v - earthVec[i])
Geocentric(planetVec, earthVec) == [i \in 1..3 |-> NSub(planetVec[i], earthVec[i])]

\* outcomes of a call on the two files: h the planet file, m the moon file
Located(planetFile, moonFile, out) ==
    [err |-> NoError, h |-> planetFile, m |-> moonFile, out |-> out]
Failed(msg, planetFile, moonFile) ==
    [err |-> msg, h |-> planetFile, m |-> moonFile, out |-> <<>>]

\* the calls of evaluate that getPlanetLongitude(ipli, jd) makes, in order
EvaluateCalls(ipli) ==
    IF ipli = SEI_MOON THEN << [file |-> "moon", ipli |-> SEI_MOON] >>
    ELSE IF ipli = SEI_SUN THEN << [file |-> "planet", ipli |-> SEI_SUN] >>
    ELSE << [file |-> "planet", ipli |-> SEI_SUN], [file |-> "planet", ipli |-> ipli] >>

\* the outcome r of a call on one of the two files, as an outcome on both
OnFile(file, r, planetFile, moonFile) ==
    [err |-> r.err,
     h   |-> IF file = "moon" THEN planetFile ELSE r.h,
     m   |-> IF file = "moon" THEN r.h ELSE moonFile,
     out |-> r.out]

\* the calls of evaluate from the k-th on, until one throws; out is the
\* vectors returned
RECURSIVE evaluateEach(_, _, _, _, _, _)
evaluateEach(planetFile, moonFile, calls, jd, k, vecs) ==
    IF k > Len(calls) THEN Located(planetFile, moonFile, vecs)
    ELSE Then(OnFile(calls[k].file,
                     evaluate(IF calls[k].file = "moon" THEN moonFile ELSE planetFile,
                              calls[k].ipli, jd),
                     planetFile, moonFile),
              LAMBDA r : evaluateEach(r.h, r.m, calls, jd, k + 1, Append(vecs, r.out)))

getPlanetLongitude(planetFile, moonFile, ipli, jd) ==
    Then(evaluateEach(planetFile, moonFile, EvaluateCalls(ipli), jd, 1, <<>>),
         LAMBDA r :
            Located(r.h, r.m,
                toEclipticLongitude(
                    IF ipli = SEI_MOON THEN r.out[1]
                    ELSE IF ipli = SEI_SUN THEN Negated(r.out[1])
                    ELSE IF BitSet(getIfFlags(r.h, ipli).out, SEI_FLG_HELIO)
                         THEN Geocentric(r.out[2], r.out[1])
                         ELSE r.out[2],
                    jd)))

\* the planet file with body 4 stored heliocentric or not
LongitudeBodies(helio) ==
    [PlanetBodies EXCEPT ![2].iflg = IF helio THEN 7 ELSE 6]

LongitudeImage(helio, be) ==
    FileBytesOf(LongitudeBodies(helio), 0, 6, SEI_FILE_TEST_ENDIAN, be)

\* the moon file as the second handle
MoonHandle(buf) == [h |-> NewHandle(buf), status |-> "new", last |-> NoCall]

InitLongitude ==
    \E helio \in BOOLEAN :
        /\ InitHandle(LongitudeImage(helio, FALSE))
        /\ mirror = MoonHandle(FileBytes("moon", SEI_FILE_TEST_ENDIAN, FALSE))

\* the dates longitudes are asked for
LongitudeJds == 0..(MaxJd - 1)

\* the outcome r of a call on the two files
ReturnsBoth(op, ipli, jd, r) ==
    /\ Returns(op, ipli, jd, r)
    /\ mirror' = Mirrored(op, ipli, jd, [err |-> r.err, h |-> r.m, out |-> r.out], "open")

GetPlanetLongitude ==
    /\ status = "open"
    /\ mirror.status = "open"
    /\ \E ipli \in BodyIds, jd \in LongitudeJds :
          \E r \in {getPlanetLongitude(Self, mirror.h, ipli, jd)} :
              ReturnsBoth("getPlanetLongitude", ipli, jd, r)
    /\ UNCHANGED status

NextLongitude == ConstructBoth \/ GetPlanetLongitude

SpecLongitude == InitLongitude /\ [][NextLongitude]_vars

\* C13: a longitude getPlanetLongitude returns is the projection, at the
\* date asked, of: for the Sun the negation of the vector the planet file
\* gives for body 0; for the Moon the vector the moon file gives for body 1,
\* the planet file being neither read nor changed; for any other body its
\* vector in the planet file, minus the vector of body 0 at the same date
\* when the body's heliocentric flag is set and as it is otherwise.
C13_LongitudeOfVector ==
    [][(last'.op = "getPlanetLongitude" /\ last'.err = NoError) =>
          \E ipli \in {last'.ipli}, jd \in {last'.tjd} :
              IF ipli = SEI_MOON
              THEN /\ \E moon \in {evaluate(mirror.h, SEI_MOON, jd).out} :
                          last'.out = toEclipticLongitude(moon, jd)
                   /\ last'.log = <<>>
                   /\ planets' = planets
                   /\ pos' = pos
              ELSE \E sun \in {evaluate(Self, SEI_SUN, jd).out} :
                       IF ipli = SEI_SUN
                       THEN last'.out = toEclipticLongitude(
                                [i \in 1..3 |-> NScale(0 - 1, sun[i])], jd)
                       ELSE \E own \in {evaluate(Self, ipli, jd).out} :
                                last'.out = toEclipticLongitude(
                                    IF planets[ipli].iflg % 2 = 1
                                    THEN [i \in 1..3 |-> NSub(own[i], sun[i])]
                                    ELSE own, jd)]_vars

\* a heliocentric body was located, with a position of body 0 to subtract
C13_Witness ==
    /\ last.op = "getPlanetLongitude"
    /\ last.err = NoError
    /\ last.ipli = SEI_MARS
    /\ planets[SEI_MARS].iflg % 2 = 1
    /\ \E i \in 1..3 : evaluate(Self, SEI_SUN, last.tjd).out[i] # NZero

(***************************************************************************)
(* SpecChart: the callable getBirthChart on the two cached handles.  A     *)
(* request carries whether dob and time are present and the Julian day     *)
(* they denote.  The planet file holds every body of planetConfigs but the *)
(* Moon; it is opened whole, with its last byte missing, or without        *)
(* Jupiter.                                                                *)
(***************************************************************************)
planetConfigs ==
    << [name |-> "Sun", id |-> SEI_SUN], [name |-> "Moon", id |-> SEI_MOON],
       [name |-> "Mercury", id |-> SEI_MERCURY], [name |-> "Venus", id |-> SEI_VENUS],
       [name |-> "Mars", id |-> SEI_MARS], [name |-> "Jupiter", id |-> SEI_JUPITER],
       [name |-> "Saturn", id |-> SEI_SATURN] >>

\* the bodies getPlanetLongitude is called for, in order: those of
\* planetConfigs.forEach, then the Moon and the Sun once more
LongitudeCalls ==
    [k \in 1..Len(planetConfigs) |-> planetConfigs[k].id] \o << SEI_MOON, SEI_SUN >>

\* a call that throws taken as one that returned, its error kept aside
PassedOver(r) ==
    [err |-> NoError, h |-> r.h, m |-> r.m,
     out |-> [thrown |-> r.err # NoError, value |-> r.out]]

\* the calls of getPlanetLongitude where a call that throws is passed over
RECURSIVE longitudeEach_skipsFailed(_, _, _, _, _)
longitudeEach_skipsFailed(planetFile, moonFile, jd, k, lons) ==
    IF k > Len(LongitudeCalls) THEN Located(planetFile, moonFile, lons)
    ELSE Then(PassedOver(getPlanetLongitude(planetFile, moonFile, LongitudeCalls[k], jd)),
              LAMBDA r :
                  longitudeEach_skipsFailed(r.h, r.m, jd, k + 1,
                      IF r.out.thrown THEN lons
                      ELSE Append(lons, [id |-> LongitudeCalls[k],
                                         longitude |-> r.out.value])))

\* the calls of getPlanetLongitude from the k-th on, until one throws; out
\* is the longitudes returned
RECURSIVE longitudeEach(_, _, _, _, _)
longitudeEach(planetFile, moonFile, jd, k, lons) ==
    IF k > Len(LongitudeCalls) THEN Located(planetFile, moonFile, lons)
    ELSE Then(getPlanetLongitude(planetFile, moonFile, LongitudeCalls[k], jd),
              LAMBDA r :
                  longitudeEach(r.h, r.m, jd, k + 1,
                      Append(lons, [id |-> LongitudeCalls[k], longitude |-> r.out])))

\* planetaryPositions after the forEach: an entry for each longitude of a
\* body of planetConfigs among the first of lons
Positions(lons) ==
    LET listed == SelectSeq(SubSeq(lons, 1, Len(lons) - 2),
                            LAMBDA l : \E k \in 1..Len(planetConfigs) :
                                           planetConfigs[k].id = l.id)
    IN  [k \in 1..Len(listed) |->
            [planet    |-> planetConfigs[CHOOSE c \in 1..Len(planetConfigs) :
                                             planetConfigs[c].id = listed[k].id].name,
             longitude |-> listed[k].longitude]]

\* the object returned; what is computed from the date and the longitudes
\* is kept as what it is computed from
Response(jd, lons) ==
    [status |-> "success",
     metadata |-> jd,
     birth_particulars |-> [tithi |-> << lons[Len(lons) - 1].longitude,
                                         lons[Len(lons)].longitude >>,
                            nakshatra |-> lons[Len(lons) - 1].longitude],
     avakhada_chakra |-> lons[Len(lons) - 1].longitude,
     planetary_positions |->
         Positions(lons) \o << [planet |-> "Rahu", longitude |-> jd],
                               [planet |-> "Ketu", longitude |-> jd] >>,
     vimshottari_dasha_at_birth |-> lons[Len(lons) - 1].longitude,
     bhava_sripati |-> jd,
     charts |-> Positions(lons)]

\* the body of the try block
calculate(planetFile, moonFile, request) ==
    IF ~request.dob \/ ~request.time
    THEN Failed("Missing birth details", planetFile, moonFile)
    ELSE Then(longitudeEach(planetFile, moonFile, request.jd, 1, <<>>),
              LAMBDA r : Located(r.h, r.m, Response(request.jd, r.out)))

\* new HttpsError(code, message), thrown
HttpsError(code, message, planetFile, moonFile) ==
    [err |-> code, h |-> planetFile, m |-> moonFile, out |-> [message |-> message]]

\* catch (err): what the try block threw is thrown again as an HttpsError
Caught(r) ==
    IF r.err # NoError
    THEN HttpsError("internal", "Calculation failed: " \o r.err, r.h, r.m)
    ELSE r

getBirthChart(planetFile, moonFile, request) ==
    Caught(calculate(planetFile, moonFile, request))

\* a body of the chart's planet file: heliocentric, two segments of two days
MinorBody(ipli, code) ==
    [ipli |-> ipli, iflg |-> SEI_FLG_HELIO, ncoe |-> 2, rmax |-> 1,
     c |-> <<0, 4, 2, 0, 0, 0, 0, 0, 0, 0>>, refep |-> <<>>,
     segs |-> [s \in 1..2 |->
                 Flatten([i \in 1..3 |->
                     << <<1, 0>>, <<1, 2>>, <<1, code + s>>, <<1, code + i>> >>])]]

ChartBodies ==
    PlanetBodies \o << MinorBody(SEI_MERCURY, 2), MinorBody(SEI_VENUS, 3),
                       MinorBody(SEI_JUPITER, 5), MinorBody(SEI_SATURN, 6) >>

\* the planet files: "whole", "cut" (last byte missing) and "short" (the
\* last two bodies, Jupiter and Saturn, not in the file)
ChartImage(kind) ==
    LET bodies == IF kind = "short" THEN SubSeq(ChartBodies, 1, 4) ELSE ChartBodies
        full   == FileBytesOf(bodies, 0, 6, SEI_FILE_TEST_ENDIAN, FALSE)
    IN  SubSeq(full, 1, Len(full) - (IF kind = "cut" THEN 1 ELSE 0))

\* the requests: a request without dob or time denotes no date
Requests ==
    {request \in [dob : BOOLEAN, time : BOOLEAN, jd : LongitudeJds] :
        (~request.dob \/ ~request.time) => request.jd = 0}

InitChart ==
    \E kind \in {"whole", "cut", "short"} :
        /\ InitHandle(ChartImage(kind))
        /\ mirror = MoonHandle(FileBytes("moon", SEI_FILE_TEST_ENDIAN, FALSE))

GetBirthChart ==
    /\ status = "open"
    /\ mirror.status = "open"
    /\ \E request \in Requests :
          \E r \in {getBirthChart(Self, mirror.h, request)} :
              /\ Becomes(r.h)
              /\ last' = [op |-> "getBirthChart", ipli |-> 0, tjd |-> request.jd,
                          request |-> request,
                          err |-> r.err, out |-> r.out, log |-> r.h.log]
              /\ mirror' = Mirrored("getBirthChart", 0, request.jd,
                                    [err |-> r.err, h |-> r.m, out |-> r.out], "open")
    /\ UNCHANGED status

NextChart == ConstructBoth \/ GetBirthChart

SpecChart == InitChart /\ [][NextChart]_vars

\* the bodies of planetConfigs whose longitude cannot be computed at jd
FailingBodies(jd) ==
    {k \in 1..Len(planetConfigs) :
        getPlanetLongitude(Self, mirror.h, planetConfigs[k].id, jd).err # NoError}

\* the keys of a success response and the bodies it lists
Complete(response) ==
    /\ DOMAIN response = {"status", "metadata", "birth_particulars", "avakhada_chakra",
                          "planetary_positions", "vimshottari_dasha_at_birth",
                          "bhava_sripati", "charts"}
    /\ response.status = "success"
    /\ [k \in 1..Len(response.planetary_positions) |->
           response.planetary_positions[k].planet]
         = << "Sun", "Moon", "Mercury", "Venus", "Mars", "Jupiter", "Saturn",
              "Rahu", "Ketu" >>

\* C14: a call of getBirthChart ends in one of two ways: it returns the
\* complete success response, or it throws one HttpsError of kind internal
\* whose message is "Calculation failed: " and the message of the error
\* underneath.  A request without dob or without time, and an error in the
\* longitude of any of the seven bodies, end it the second way: no
\* response with part of the bodies is ever returned.
C14_ChartAllOrNothing ==
    [][last'.op = "getBirthChart" =>
          \E request \in {last'.request} :
          \E failing \in {FailingBodies(request.jd)} :
              /\ \/ last'.err = NoError /\ Complete(last'.out)
                 \/ /\ last'.err = "internal"
                    /\ DOMAIN last'.out = {"message"}
              /\ (~request.dob \/ ~request.time) =>
                    /\ last'.err = "internal"
                    /\ last'.out.message = "Calculation failed: Missing birth details"
              /\ (request.dob /\ request.time /\ failing # {}) =>
                    /\ last'.err = "internal"
                    /\ \E k \in failing :
                          last'.out.message = "Calculation failed: "
                              \o getPlanetLongitude(Self, mirror.h,
                                                    planetConfigs[k].id, request.jd).err]_vars

\* a chart failed at its last body, after the six before it were computed
C14_Witness ==
    /\ last.op = "getBirthChart"
    /\ last.err = "internal"
    /\ last.out.message = "Calculation failed: Unexpected EOF"
    /\ \A b \in {SEI_SUN, SEI_MERCURY, SEI_VENUS, SEI_MARS, SEI_JUPITER} :
          planets[b].segp # NULL /\ planets[b].tseg0 <= last.tjd /\ last.tjd <= planets[b].tseg1
    /\ SEI_SATURN \in DOMAIN planets
    /\ mirror.h.planets[SEI_MOON].segp # NULL

(***************************************************************************)
(* SpecTithi: getTithi as a function of two longitudes in whole degrees,   *)
(* held in mirror; the call made on them is recorded in last.              *)
(***************************************************************************)
MaxLongitude == 400

\* JavaScript's a % b: the remainder has the sign of a
JsRem(a, b) == IF a >= 0 THEN a % b ELSE 0 - ((0 - a) % b)

\* a normalisation that leaves a negative angle negative
normalizeDegrees_noWrap(deg) == JsRem(deg, 360)

normalizeDegrees(deg) == JsRem(JsRem(deg, 360) + 360, 360)

TITHI_NAMES ==
    << "Pratipada", "Dwitiya", "Tritiya", "Chaturthi", "Panchami", "Shashthi",
       "Saptami", "Ashtami", "Navami", "Dashami", "Ekadashi", "Dwadashi",
       "Trayodashi", "Chaturdashi", "Purnima" >>

\* array[index] of JavaScript, in a template string
ElementAt(array, index) ==
    IF index >= 0 /\ index < Len(array) THEN array[index + 1] ELSE "undefined"

getTithi(moonLongitude, sunLongitude) ==
    LET diff       == normalizeDegrees(moonLongitude - sunLongitude)
        tithiIndex == FloorDiv(diff, 12)
        phase      == IF diff < 180 THEN "Shukla" ELSE "Krishna"
        name       == ElementAt(TITHI_NAMES, JsRem(tithiIndex, 15))
    IN  phase \o " " \o name

TithiInputs ==
    [moonLongitude : (0 - MaxLongitude)..MaxLongitude, sunLongitude : {0, 7, 180, 359}]

InitTithi ==
    /\ InitHandle(<<>>)
    /\ mirror \in TithiInputs

GetTithi ==
    /\ last.op = "none"
    /\ last' = [op |-> "getTithi", ipli |-> 0, tjd |-> 0, err |-> NoError,
                out |-> getTithi(mirror.moonLongitude, mirror.sunLongitude),
                log |-> <<>>]
    /\ UNCHANGED << buffer, pos, planets, fendian, freord, fileStart, fileEnd,
                    status, mirror >>

NextTithi == GetTithi

SpecTithi == InitTithi /\ [][NextTithi]_vars

\* C15: with diff the difference moon - sun reduced modulo 360 into
\* [0, 360), getTithi returns the phase Shukla exactly when floor(diff / 12)
\* is below 15 and Krishna otherwise, followed by the name
\* TITHI_NAMES[floor(diff / 12) mod 15]; a diff in [0, 12) gives
\* "Shukla Pratipada".
C15_TithiOfDifference ==
    last.op = "getTithi" =>
        LET diff == (mirror.moonLongitude - mirror.sunLongitude) % 360
            idx  == diff \div 12
        IN  /\ last.out = (IF idx < 15 THEN "Shukla" ELSE "Krishna")
                             \o " " \o TITHI_NAMES[(idx % 15) + 1]
            /\ diff < 12 => last.out = "Shukla Pratipada"

\* the Moon behind the Sun by less than twelve degrees: the thirtieth tithi
C15_Witness ==
    /\ last.op = "getTithi"
    /\ mirror.moonLongitude < mirror.sunLongitude
    /\ mirror.sunLongitude - mirror.moonLongitude < 12
    /\ last.out = "Krishna Purnima"

\* a handle freshly opened on the image of the handle
Fresh == construct(buffer).h

\* the step is a successful evaluate that decoded a segment
DecodingStep == EvaluateStep /\ last'.err = NoError /\ ReadBytes(last')

\* the body's cache holds nothing, or a segment of the body's range decoded
\* to its end
SoundCache(ipli) ==
    \/ planets[ipli].segp = NULL
    \/ \E iseg \in IndexEntries : \E p \in CompleteDecodes(ipli, iseg) :
          /\ Cache(p) = Cache(planets[ipli])
          /\ InRange(p, p.tseg0)
          /\ InRange(p, p.tseg1)

InitReadInt ==
    /\ \E be \in BOOLEAN : InitHandle(FileBytes("moon", SEI_FILE_TEST_ENDIAN, be))
    /\ mirror = <<>>

ReadInt ==
    /\ status = "open"
    /\ \E fpos \in SEI_CURR_FPOS..Len(buffer) :
          \E r \in {readInt(Self, 3, fpos)} : Returns("readInt", 3, fpos, r)
    /\ UNCHANGED << status, mirror >>

NextReadInt == Construct \/ ReadInt

SpecReadInt == InitReadInt /\ [][NextReadInt]_vars

\* the image is written most significant byte first
BigEndianImage == SentinelBytes = Reverse(SentinelLE)

\* C17: on a handle the header parse produced, the flags are (little
\* endian, not reordered) for a little-endian file and (big endian,
\* reordered) for a big-endian one, and readInt(3, pos) returns the
\* non-negative integer below 2^24 whose three bytes are the bytes at pos in
\* the file's byte order: least significant first in the first case, most
\* significant first in the second.
C17_ThreeByteInt ==
    (status = "open" /\ last.op = "readInt" /\ last.err = NoError) =>
        LET at == last.log[1][1]
            b  == slice(buffer, at, at + 3)
        IN  /\ last.tjd >= 0 => at = last.tjd
            /\ last.log = << << at, 3 >> >>
            /\ << fendian, freord >> =
                   IF BigEndianImage THEN << SEI_FILE_BIGENDIAN, SEI_FILE_REORD >>
                   ELSE << SEI_FILE_LITENDIAN, 0 >>
            /\ last.out = IF BigEndianImage
                          THEN 65536 * b[1] + 256 * b[2] + b[3]
                          ELSE b[1] + 256 * b[2] + 65536 * b[3]
            /\ last.out >= 0
            /\ last.out < 16777216

\* three different bytes, the first not zero, read from a big-endian file
C17_Witness ==
    /\ status = "open"
    /\ last.op = "readInt"
    /\ last.err = NoError
    /\ BigEndianImage
    /\ freord = SEI_FILE_REORD
    /\ LET b == slice(buffer, last.tjd, last.tjd + 3)
       IN  last.tjd >= 0 /\ b[1] # 0 /\ b[1] # b[3] /\ last.out = 65536 * b[1] + 256 * b[2] + b[3]

(***************************************************************************)
(* SpecCodes: the decoding of one item of a coefficient class.  The handle *)
(* stands in the payload of a segment: its buffer is the bytes of the      *)
(* item, in the byte order of fendian and freord, and the cursor is on     *)
(* them.  The class is kept in mirror.  For the classes 0..3 the outcome   *)
(* is the sign and the magnitude of the coefficient in units of            *)
(* rmax / 2 / 1e9; for the classes 4 and 5 it is the coefficients of the   *)
(* byte in units of rmax / 2 / 1e9 / 256.                                  *)
(***************************************************************************)
CodeBytes == {0, 1, 2, 127, 128, 254, 255}

\* the byte sequences of length n over CodeBytes
CodesOf(n) == [1..n -> CodeBytes]

InitItem(class, bytes, be) ==
    /\ buffer = bytes
    /\ pos = 0
    /\ planets = <<>>
    /\ fendian = IF be THEN SEI_FILE_BIGENDIAN ELSE SEI_FILE_LITENDIAN
    /\ freord = IF be THEN SEI_FILE_REORD ELSE 0
    /\ fileStart = 0
    /\ fileEnd = 0
    /\ status = "open"
    /\ last = NoCall
    /\ mirror = [class |-> class]

InitCodes ==
    \/ \E i \in 0..3, be \in BOOLEAN : \E bytes \in CodesOf(4 - i) : InitItem(i, bytes, be)
    \/ \E i \in {4, 5}, be \in BOOLEAN, byte \in 0..255 : InitItem(i, << byte >>, be)

\* one pass of the loop of a class 0..3 with one coefficient to read
DecodeCode ==
    /\ last.op = "none"
    /\ mirror.class < 4
    /\ \E r \in {doFread(Self, ClassSize(mirror.class), 1, 4, SEI_CURR_FPOS)} :
          /\ Becomes(r.h)
          /\ last' = [op |-> "decode", ipli |-> 0, tjd |-> 0, err |-> r.err,
                      out |-> Decode03(readUInt32Halves(r.out)), log |-> r.h.log]
    /\ UNCHANGED << status, mirror >>

\* one byte of class 4 or 5 with all its sub-fields to read
DecodePacked ==
    /\ last.op = "none"
    /\ mirror.class >= 4
    /\ \E r \in {doFread(Self, ClassSize(mirror.class), 1, 4, SEI_CURR_FPOS)} :
          /\ Becomes(r.h)
          /\ last' = [op |-> "decodePacked", ipli |-> 0, tjd |-> 0, err |-> r.err,
                      out |-> IF mirror.class = 4
                              THEN PackedQuotients(r.out, 2, 2, 16, 16)
                              ELSE PackedQuotients(r.out, 4, 4, 64, 4),
                      log |-> r.h.log]
    /\ UNCHANGED << status, mirror >>

NextCodes == DecodeCode \/ DecodePacked

SpecCodes == InitCodes /\ [][NextCodes]_vars

\* the bytes of the item, least significant first, filled to four with zeros
ItemBytes == (IF freord # 0 THEN Reverse(buffer) ELSE buffer) \o Zeros(4 - Len(buffer))

\* C18: in a class i of 0..3 the item is 4 - i bytes, read as the unsigned
\* code they spell in the file's byte order; the coefficient is, in units of
\* rmax / (2 * 1e9), +(code / 2) when bit 0 of the code is clear and
\* -((code + 1) / 2) when it is set, for every code of the width, 2^32 - 1
\* included: twice the magnitude is the code, plus one when the code is odd.
C18_SignMagnitudeCode ==
    (last.op = "decode" /\ mirror.class < 4) =>
        LET b    == ItemBytes
            hi   == b[3] + 256 * b[4]
            lo   == b[1] + 256 * b[2]
            odd  == b[1] % 2
            mag  == last.out.mag
        IN  /\ Len(buffer) = 4 - mirror.class
            /\ last.log = << << 0, 4 - mirror.class >> >>
            /\ last.out.neg = (odd = 1)
            /\ (2 * mag.lo) % 65536 = (lo + odd) % 65536
            /\ 2 * mag.hi + (2 * mag.lo) \div 65536 = hi + (lo + odd) \div 65536
            /\ mag.lo \in 0..65535

\* the largest code of class 0, 2^32 - 1, decoded to -2^31
C18_Witness ==
    /\ last.op = "decode"
    /\ mirror.class = 0
    /\ buffer = << 255, 255, 255, 255 >>
    /\ last.out = [neg |-> TRUE, mag |-> [hi |-> 32768, lo |-> 0]]

\* the width in bits of a sub-field of class 4 or 5, the sub-fields of a
\* byte, and the n-th sub-field (n from 0, the highest first) of a byte
FieldBits(class) == IF class = 4 THEN 4 ELSE 2
FieldsPerByte(class) == 8 \div FieldBits(class)
FieldOf(class, byte, n) ==
    (byte \div Pow(2, FieldBits(class) * (FieldsPerByte(class) - 1 - n)))
        % Pow(2, FieldBits(class))

\* C19: in the classes 4 and 5 the coefficient of a sub-field is decoded
\* from the sub-field alone: its top bit is the sign, the magnitude is
\* (field + top bit) / 2 rounded down when the sign is set and field / 2
\* rounded down when it is clear, in units of rmax / (2 * 1e9).
C19_PackedSignMagnitude ==
    last.op = "decodePacked" =>
        \A n \in 0..(FieldsPerByte(mirror.class) - 1) :
            LET field == FieldOf(mirror.class, buffer[1], n)
                top   == Pow(2, FieldBits(mirror.class) - 1)
            IN  last.out[n + 1] =
                    256 * (IF field >= top THEN 0 - ((field + top) \div 2)
                           ELSE field \div 2)

\* C20: in the classes 4 and 5 the coefficient of a sub-field is a whole
\* number of units rmax / (2 * 1e9), and every byte with the same bits in
\* that sub-field decodes to the same coefficient for it.
C20_PackedFieldOnly ==
    last.op = "decodePacked" =>
        \A n \in 0..(FieldsPerByte(mirror.class) - 1) :
            /\ last.out[n + 1] % 256 = 0
            /\ \A other \in 0..255 :
                  FieldOf(mirror.class, other, n) = FieldOf(mirror.class, buffer[1], n)
                     => PackedQuotients(<< other, 0, 0, 0 >>, FieldsPerByte(mirror.class),
                                        FieldsPerByte(mirror.class),
                                        Pow(2, 8 - FieldBits(mirror.class)),
                                        Pow(2, FieldBits(mirror.class)))[n + 1]
                           = last.out[n + 1]

(***************************************************************************)
(* SpecSegment: a one-body file (body 0, not rotated, five coefficients a  *)
(* coordinate, one segment of two days) whose segment payload is any three *)
(* of the coordinates below: short and long headers, every class, counts   *)
(* that fill the coordinate's block, fall short of it, or exceed it.       *)
(***************************************************************************)
CoordShapes ==
    { \* no class
      << <<1, 0>>, <<1, 0>> >>,
      \* classes 2 (one code) and 3 (two codes): three coefficients
      << <<1, 0>>, <<1, 18>>, <<2, 260>>, <<1, 3>>, <<1, 5>> >>,
      \* long header: classes 1 (one code) and 4 (three codes in two bytes)
      << <<1, 133>>, <<1, 1>>, <<1, 0>>, <<1, 48>>, <<3, 513>>, <<1, 156>>, <<1, 32>> >>,
      \* long header: class 5 (five codes in two bytes)
      << <<1, 128>>, <<1, 0>>, <<1, 0>>, <<1, 5>>, <<1, 0>>, <<1, 0>> >>,
      \* classes 0 (one code) and 3 (three codes): four coefficients
      << <<1, 16>>, <<1, 3>>, <<4, 258>>, <<1, 7>>, <<1, 2>>, <<1, 9>> >>,
      \* class 3 with six codes: one more than the block holds
      << <<1, 0>>, <<1, 6>>, <<1, 1>>, <<1, 2>>, <<1, 3>>, <<1, 4>>, <<1, 5>>, <<1, 6>> >> }

SegmentBodies(x, y, z) ==
    << [ipli |-> SEI_SUN, iflg |-> 0, ncoe |-> 5, rmax |-> 1,
        c |-> <<2, 4, 2, 0, 0, 0, 0, 0, 0, 0>>, refep |-> <<>>,
        segs |-> << x \o y \o z >>] >>

InitSegment ==
    /\ \E x \in CoordShapes, y \in CoordShapes, z \in CoordShapes :
          InitHandle(FileBytesOf(SegmentBodies(x, y, z), 2, 4,
                                 SEI_FILE_TEST_ENDIAN, FALSE))
    /\ mirror = <<>>

SpecSegment == InitSegment /\ [][Next]_vars

\* the byte at offset p of the image, and the little-endian 3-byte index
\* entry of segment iseg of a body
ByteAt(p) == buffer[p + 1]
IndexEntry(planet, iseg) ==
    ByteAt(planet.lndx0 + 3 * iseg) + 256 * ByteAt(planet.lndx0 + 3 * iseg + 1)
      + 65536 * ByteAt(planet.lndx0 + 3 * iseg + 2)

\* a coordinate whose header starts at offset p: whether bit 7 of its first
\* byte is set, the bytes of its header and its counts
LongHeader(p) == ByteAt(p) >= 128
HeaderBytes(p) == IF LongHeader(p) THEN 4 ELSE 2
Counts(p) ==
    IF LongHeader(p)
    THEN << ByteAt(p + 1) \div 16, ByteAt(p + 1) % 16, ByteAt(p + 2) \div 16,
            ByteAt(p + 2) % 16, ByteAt(p + 3) \div 16, ByteAt(p + 3) % 16 >>
    ELSE << ByteAt(p) \div 16, ByteAt(p) % 16, ByteAt(p + 1) \div 16, ByteAt(p + 1) % 16 >>

\* ceil(n / d)
Ceil(n, d) == CHOOSE k \in 0..n : k * d >= n /\ (k = 0 \/ (k - 1) * d < n)

\* the bytes class i takes for n coefficients
ClassBytes(i, n) ==
    IF i < 4 THEN (4 - i) * n ELSE IF i = 4 THEN Ceil(n, 2) ELSE Ceil(n, 4)

\* the offset of class i of the coordinate at p, the class after the last
\* being the end of the coordinate
RECURSIVE ClassAt(_, _)
ClassAt(p, i) ==
    IF i = 0 THEN p + HeaderBytes(p)
    ELSE ClassAt(p, i - 1) + ClassBytes(i - 1, Counts(p)[i])

CoordEnd(p) == ClassAt(p, Len(Counts(p)))

\* the offset of coordinate k of the segment at offset
RECURSIVE CoordAt(_, _)
CoordAt(offset, k) ==
    IF k = 0 THEN offset ELSE CoordEnd(CoordAt(offset, k - 1))

\* the reads of the coordinate at p: its header, then one read for each
\* class with a count that is not 0
CoordReads(p) ==
    (IF LongHeader(p) THEN << <<p, 2>>, <<p + 2, 2>> >> ELSE << <<p, 2>> >>)
      \o Flatten([i \in 1..Len(Counts(p)) |->
                    IF Counts(p)[i] = 0 THEN <<>>
                    ELSE << <<ClassAt(p, i - 1), ClassBytes(i - 1, Counts(p)[i])>> >>])

\* an evaluate that decoded a segment and returned
Decoded == EvaluateStep /\ last'.err = NoError /\ ReadBytes(last')

\* the offset of the segment an evaluate(ipli, tjd) decodes
DecodedOffset(ipli, tjd) == IndexEntry(planets[ipli], SegmentIndex(planets[ipli], tjd))

\* C21: for each coordinate the decoder reads 2 header bytes c[0], c[1];
\* when bit 7 of c[0] is set it reads 2 more and uses the six counts
\* (c[1]>>4, c[1]&15, extra[0]>>4, extra[0]&15, extra[1]>>4, extra[1]&15),
\* otherwise it reads no more header bytes and uses the four counts
\* (c[0]>>4, c[0]&15, c[1]>>4, c[1]&15): the reads of a decode are those of
\* the index entry and, for x, y and z, the header and one read for each
\* of these counts that is not 0.
C21_CoordinateHeader ==
    [][Decoded =>
          \E offset \in {DecodedOffset(last'.ipli, last'.tjd)} :
              SubSeq(last'.log, 2, Len(last'.log))
                = CoordReads(CoordAt(offset, 0)) \o CoordReads(CoordAt(offset, 1))
                    \o CoordReads(CoordAt(offset, 2))]_vars

\* a segment was decoded whose x has a long header and whose y a short one
C21_Witness ==
    /\ last.op = "evaluate"
    /\ last.err = NoError
    /\ Len(last.log) > 1
    /\ LongHeader(last.log[2][1])
    /\ ~LongHeader(CoordAt(last.log[2][1], 1))
    /\ \E i \in 1..6 : Counts(last.log[2][1])[i] # 0

\* C22: a decode reads x, y and z in that order from consecutive bytes
\* starting at the segment offset: every read starts where the one before
\* it ended, class i < 4 with count n takes (4 - i) * n bytes, class 4
\* ceil(n / 2), class 5 ceil(n / 4), a count of 0 none, and the cursor
\* after the decode is the offset plus the header and class bytes of the
\* three coordinates.
C22_BytesConsumed ==
    [][Decoded =>
          \E offset \in {DecodedOffset(last'.ipli, last'.tjd)} :
              /\ last'.log[2][1] = offset
              /\ \A r \in 2..(Len(last'.log) - 1) :
                    last'.log[r + 1][1] = last'.log[r][1] + last'.log[r][2]
              /\ pos' = CoordAt(offset, 3)
              /\ pos' = offset + SumOf([r \in 1..(Len(last'.log) - 1) |->
                                           last'.log[r + 1][2]])]_vars

\* a segment was decoded that has a class 4 and a class 5 with odd counts
\* and a class with count 0 between classes that are read
C22_Witness ==
    /\ last.op = "evaluate"
    /\ last.err = NoError
    /\ Len(last.log) > 1
    /\ \E k \in 0..2 :
          /\ LongHeader(CoordAt(last.log[2][1], k))
          /\ Counts(CoordAt(last.log[2][1], k))[5] = 3
    /\ \E k \in 0..2 :
          /\ LongHeader(CoordAt(last.log[2][1], k))
          /\ Counts(CoordAt(last.log[2][1], k))[6] = 5
    /\ pos = CoordAt(last.log[2][1], 3)

\* the coefficients the classes of the coordinate at p hold, in the order
\* they appear in the file
CoordCoefs(p, rmax) ==
    Flatten([i \in 1..Len(Counts(p)) |->
        IF Counts(p)[i] = 0 THEN <<>>
        ELSE ClassCoefs(doFread(seek(Self, ClassAt(p, i - 1)), ClassSize(i - 1),
                                ClassItems(i - 1, Counts(p)[i]), 4, SEI_CURR_FPOS).out,
                        i - 1, Counts(p)[i], rmax)])

\* C23: after a decode (of a body that is not rotated) the coefficients of
\* coordinate k are at consecutive indices of segp from k * ncoe on, in the
\* order they appear across the classes with a count that is not 0, and
\* the other indices of the block [k * ncoe, (k + 1) * ncoe) hold 0: no
\* coordinate has written into the block of another.
C23_CoefficientBlocks ==
    [][(Decoded /\ ~BitSet(planets[last'.ipli].iflg, SEI_FLG_ROTATE)) =>
          \E offset \in {DecodedOffset(last'.ipli, last'.tjd)} :
          \E planet \in {planets'[last'.ipli]} :
              \A k \in 0..2 :
                  \E coefs \in {CoordCoefs(CoordAt(offset, k), planet.rmax)} :
                      \A j \in 1..planet.ncoe :
                          planet.segp[1][k * planet.ncoe + j]
                            = IF j <= Len(coefs) THEN coefs[j] ELSE NZero]_vars

\* C24: whenever segp is present it has exactly 3 * ncoe entries (ncoe for
\* x, then ncoe for y, then ncoe for z), whatever the counts in the
\* coordinate headers of the segment decoded.
C24_SegpLength ==
    \A b \in DOMAIN planets :
        planets[b].segp # NULL => Len(planets[b].segp[1]) = 3 * planets[b].ncoe

(***************************************************************************)
(* SpecWindow: the moon file in both byte orders, with the segment length  *)
(* dseg of its header as the format has it (2) or negative (-2); the       *)
(* constructor accepts both.                                               *)
(***************************************************************************)
WindowBodies(dseg) == << [MoonBodies[1] EXCEPT !.c[3] = dseg] >>

InitWindow ==
    /\ \E dseg \in {0 - 2, 2}, be \in BOOLEAN :
          InitHandle(FileBytesOf(WindowBodies(dseg), 0, 6, SEI_FILE_TEST_ENDIAN, be))
    /\ mirror = <<>>

SpecWindow == InitWindow /\ [][Next]_vars

\* -1 <= 2 * (jd - tseg0) / dseg - 1 <= 1
ArgumentInRange(planet, jd) ==
    \/ planet.dseg > 0 /\ 0 <= 2 * (jd - planet.tseg0)
                       /\ 2 * (jd - planet.tseg0) <= 2 * planet.dseg
    \/ planet.dseg < 0 /\ 2 * planet.dseg <= 2 * (jd - planet.tseg0)
                       /\ 2 * (jd - planet.tseg0) <= 0

\* C25: after every evaluate(body, jd) that returns a vector the body's
\* window has tseg0 <= jd <= tseg1, so that the argument
\* 2 * (jd - tseg0) / dseg - 1 of the Chebyshev evaluator is in [-1, +1];
\* right after a decode tseg0 <= jd < tseg1.
C25_WindowHoldsJd ==
    [][(EvaluateStep /\ last'.err = NoError) =>
          \E planet \in {planets'[last'.ipli]} :
              /\ planet.tseg0 <= last'.tjd
              /\ last'.tjd <= planet.tseg1
              /\ ArgumentInRange(planet, last'.tjd)
              /\ ReadBytes(last') => last'.tjd < planet.tseg1]_vars

(***************************************************************************)
(* SpecCheb: echeb as a function of an argument x, an array coef of plain  *)
(* numbers and the number ncf of them to use, held in mirror; the call     *)
(* made on them is recorded in last.                                       *)
(***************************************************************************)
MaxCoefs == 4

ChebInputs ==
    [x : (0 - 2)..2, coef : [1..MaxCoefs -> {0 - 1, 0, 2}], ncf : 0..MaxCoefs]

InitCheb ==
    /\ InitHandle(<<>>)
    /\ mirror \in ChebInputs

Echeb ==
    /\ last.op = "none"
    /\ last' = [op |-> "echeb", ipli |-> 0, tjd |-> 0, err |-> NoError,
                out |-> echeb(mirror.x, [j \in 1..MaxCoefs |-> NPlain(mirror.coef[j])],
                              mirror.ncf),
                log |-> <<>>]
    /\ UNCHANGED << buffer, pos, planets, fendian, freord, fileStart, fileEnd,
                    status, mirror >>

NextCheb == Echeb

SpecCheb == InitCheb /\ [][NextCheb]_vars

\* the Chebyshev polynomial of the first kind T_j at x
RECURSIVE ChebT(_, _)
ChebT(j, x) ==
    IF j = 0 THEN 1 ELSE IF j = 1 THEN x
    ELSE 2 * x * ChebT(j - 1, x) - ChebT(j - 2, x)

\* twice c[0] / 2 + the sum over j = 1..n-1 of c[j] * T_j(x): the number a
\* Num holds for that value
ChebSum2(x, c, n) ==
    IF n = 0 THEN 0
    ELSE c[1] + 2 * SumOf([j \in 1..(n - 1) |-> c[j + 1] * ChebT(j, x)])

\* C26: echeb(x, c, n), the recurrence br = 2x * brpp - brp2 + c[j] run for
\* j = n-1 down to 0 from zeros and ended by (br - brp2) / 2, equals
\* c[0] / 2 + the sum over j = 1..n-1 of c[j] * T_j(x); it is 0 for n = 0
\* and c[0] / 2 for n = 1.
C26_ChebyshevSum ==
    last.op = "echeb" =>
        /\ NGet(last.out, <<0, 0, 0>>) = ChebSum2(mirror.x, mirror.coef, mirror.ncf)
        /\ DOMAIN last.out \subseteq {<<0, 0, 0>>}
        /\ mirror.ncf = 0 => last.out = NZero
        /\ mirror.ncf = 1 => NGet(last.out, <<0, 0, 0>>) = mirror.coef[1]

\* a series of four terms, none of them 0, was summed away from x = 0
C26_Witness ==
    /\ last.op = "echeb"
    /\ mirror.ncf = 4
    /\ mirror.x = 2
    /\ \A j \in 1..4 : mirror.coef[j] # 0
    /\ last.out # NZero

(***************************************************************************)
(* SpecBodies: the constructor and getIfFlags on two-body files whose      *)
(* bodies have or have not an ellipse reference, with one to three         *)
(* coefficients, and whose body count is written as it is (2, ids of 2     *)
(* bytes) or with 256 or 512 added (ids of 4 bytes), in both byte orders.  *)
(***************************************************************************)
\* offsets of the body count and of the first body id
NplanAt == Len(Banner) + 4 + 4 + 4 + 8 + 8
IdsAt == NplanAt + 2

ListedBody(body, iflg, ncoe) ==
    [body EXCEPT !.iflg = iflg, !.ncoe = ncoe,
                 !.refep = IF BitSet(iflg, SEI_FLG_ELLIPSE)
                           THEN [k \in 1..(2 * ncoe) |-> k] ELSE <<>>]

\* the image of the bodies with high * 256 added to the body count and,
\* when high > 0, the ids written on 4 bytes
BodiesImage(bodies, high, be) ==
    LET base == FileBytesOf(bodies, 0, 6, SEI_FILE_TEST_ENDIAN, be)
        n    == Len(bodies)
    IN  IF high = 0 THEN base
        ELSE SubSeq(base, 1, NplanAt) \o IntBytes(high * 256 + n, 2, be)
               \o Flatten([i \in 1..n |-> IntBytes(bodies[i].ipli, 4, be)])
               \o SubSeq(base, IdsAt + 2 * n + 1, Len(base))

InitBodies ==
    /\ \E f0 \in {0, 4}, n0 \in {1, 2}, f1 \in {2, 6}, n1 \in {1, 3},
          high \in {0, 1, 2}, be \in BOOLEAN :
          InitHandle(BodiesImage(<< ListedBody(PlanetBodies[1], f0, n0),
                                    ListedBody(PlanetBodies[2], f1, n1) >>, high, be))
    /\ mirror = <<>>

SpecBodies == InitBodies /\ [][NextHeader]_vars

\* count bytes from offset p as the file has them, least significant first
FileBytesAt(p, count) ==
    IF freord # 0 THEN Reverse(SubSeq(buffer, p + 1, p + count))
    ELSE SubSeq(buffer, p + 1, p + count)

\* the body count as written, the width of an id and the number of ids
NplanInFile == readInt16LE(FileBytesAt(NplanAt, 2))
IdWidth == IF NplanInFile > 256 THEN 4 ELSE 2
IdCount == IF NplanInFile > 256 THEN NplanInFile % 256 ELSE NplanInFile
IdInFile(i) ==
    readInt32LE(FileBytesAt(IdsAt + IdWidth * (i - 1), IdWidth) \o Zeros(4 - IdWidth))

\* the offset of the header of the i-th body of the list, and its reads
RECURSIVE BodyAt(_)
BodyAt(i) ==
    IF i = 1 THEN IdsAt + IdWidth * IdCount + 4 + 40
    ELSE BodyAt(i - 1) + 4 + 1 + 1 + 4 + 80
           + (IF BitSet(planets[IdInFile(i - 1)].iflg, SEI_FLG_ELLIPSE)
              THEN 16 * planets[IdInFile(i - 1)].ncoe ELSE 0)

BodyReads(i) ==
    << <<BodyAt(i), 4>>, <<BodyAt(i) + 4, 1>>, <<BodyAt(i) + 5, 1>>,
       <<BodyAt(i) + 6, 4>>, <<BodyAt(i) + 10, 80>> >>
      \o (IF BitSet(planets[IdInFile(i)].iflg, SEI_FLG_ELLIPSE)
          THEN << <<BodyAt(i) + 90, 16 * planets[IdInFile(i)].ncoe>> >> ELSE <<>>)

\* the constructor has just returned
Parsed == status = "open" /\ last.op = "construct"

\* C27: after the header parse refep is present exactly for the bodies
\* whose ellipse flag is set, and then holds 2 * ncoe doubles; the headers
\* of the bodies are read one after the other in the order of the body
\* list, each taking 4 + 1 + 1 + 4 + 80 bytes, and 16 * ncoe more exactly
\* when its ellipse flag is set.
C27_BodyHeaders ==
    Parsed =>
        /\ \A b \in DOMAIN planets :
              /\ planets[b].refep # NULL <=> BitSet(planets[b].iflg, SEI_FLG_ELLIPSE)
              /\ planets[b].refep # NULL => Len(planets[b].refep[1]) = 2 * planets[b].ncoe
        /\ SubSeq(last.log, 9, Len(last.log))
             = Flatten([i \in 1..IdCount |-> BodyReads(i)])
        /\ pos = BodyAt(IdCount + 1)

\* a file was parsed whose first body has an ellipse reference and whose
\* second has none
C27_Witness ==
    /\ Parsed
    /\ IdCount = 2
    /\ planets[IdInFile(1)].refep # NULL
    /\ planets[IdInFile(1)].ncoe = 2
    /\ planets[IdInFile(2)].refep = NULL

\* C28: the header parse reads nplan as a 16-bit int; when it exceeds 256
\* the ids are read on 4 bytes each and there are nplan mod 256 bodies,
\* otherwise the ids are read on 2 bytes each and there are nplan bodies;
\* exactly that many ids are read, each widened to 32 bits.
C28_BodyIds ==
    Parsed =>
        /\ last.log[5] = << NplanAt, 2 >>
        /\ last.log[6] = << IdsAt, IdWidth * IdCount >>
        /\ last.log[7] = << IdsAt + IdWidth * IdCount, 4 >>
        /\ DOMAIN planets = {IdInFile(i) : i \in 1..IdCount}
        /\ Len(last.log) = 8 + SumOf([i \in 1..IdCount |-> Len(BodyReads(i))])

\* a file was parsed whose body count is written as 512 + 2
C28_Witness ==
    /\ Parsed
    /\ NplanInFile = 514
    /\ DOMAIN planets = {SEI_SUN, SEI_MARS}

(***************************************************************************)
(* SpecAsync: one call of callSwissephAsync(fn, args).  The wrapped fn may *)
(* invoke the callback while it runs and after it returned, any number of  *)
(* times up to MaxCallbacks, and returns a value, returns undefined or     *)
(* throws.  mirror holds the closure and the promise:                      *)
(*   resolved : the flag of the closure                                    *)
(*   state, value : the promise (pending, fulfilled or rejected)           *)
(*   calls    : how often the wrapper has called resolve or reject         *)
(*   outcomes : history, the outcomes offered so far in the order they     *)
(*              came: results passed to the callback, a defined value      *)
(*              returned, an exception thrown                              *)
(*   callbacks: how often the callback was invoked                         *)
(* status is "new" before fn is called, "running" inside fn, and           *)
(* "returned" or "thrown" after it.                                        *)
(***************************************************************************)
MaxCallbacks == 2

\* the values fn returns or passes: undefined, null, an object without an
\* error, with an empty (falsy) error, and objects with an error message
Undefined == [v |-> "undefined", error |-> ""]
Results ==
    { Undefined, [v |-> "null", error |-> ""], [v |-> "object", error |-> ""],
      [v |-> "object", error |-> "E1"], [v |-> "object", error |-> "E2"] }

\* result && result.error
ErrorOf(result) ==
    IF result.v \in {"undefined", "null"} THEN "" ELSE result.error

\* resolve(value) and reject(reason) of the promise: a promise that is no
\* longer pending ignores them
resolve(p, value) ==
    [p EXCEPT !.calls = @ + 1,
              !.state = IF p.state = "pending" THEN "fulfilled" ELSE @,
              !.value = IF p.state = "pending" THEN value ELSE @]
reject(p, reason) ==
    [p EXCEPT !.calls = @ + 1,
              !.state = IF p.state = "pending" THEN "rejected" ELSE @,
              !.value = IF p.state = "pending" THEN reason ELSE @]

\* resolved = true; if (result && result.error) reject(new Error(...)) else
\* resolve(result)
Settle(p, result) ==
    IF ErrorOf(result) # ""
    THEN reject([p EXCEPT !.resolved = TRUE], [v |-> "Error", error |-> result.error])
    ELSE resolve([p EXCEPT !.resolved = TRUE], result)

\* a callback that settles whatever the flag says
callback_noGuard(p, result) == Settle(p, result)

callback(p, result) == IF p.resolved THEN p ELSE Settle(p, result)

\* what follows const directResult = fn(...args, callback)
directReturn(p, directResult) ==
    IF directResult # Undefined /\ ~p.resolved THEN Settle(p, directResult) ELSE p

\* fn threw inside the executor: the Promise constructor rejects with it
executorThrew(p, thrown) ==
    [p EXCEPT !.state = IF p.state = "pending" THEN "rejected" ELSE @,
              !.value = IF p.state = "pending" THEN thrown ELSE @]

Thrown == [v |-> "Error", error |-> "thrown"]

Offered(p, kind, result) ==
    [p EXCEPT !.outcomes = Append(@, [kind |-> kind, result |-> result])]

InitAsync ==
    /\ InitHandle(<<>>)
    /\ mirror = [resolved |-> FALSE, state |-> "pending", value |-> Undefined,
                 calls |-> 0, outcomes |-> <<>>, callbacks |-> 0]

Event(op) == [op |-> op, ipli |-> 0, tjd |-> 0, err |-> NoError, out |-> <<>>, log |-> <<>>]

Unopened == << buffer, pos, planets, fendian, freord, fileStart, fileEnd >>

\* new Promise(...): the executor starts and calls fn
CallFn ==
    /\ status = "new"
    /\ status' = "running"
    /\ last' = Event("fn")
    /\ UNCHANGED << Unopened, mirror >>

\* fn invokes the callback before it returns
CallbackSync ==
    /\ status = "running"
    /\ mirror.callbacks < MaxCallbacks
    /\ \E result \in Results :
          mirror' = [callback(Offered(mirror, "callback", result), result)
                        EXCEPT !.callbacks = @ + 1]
    /\ last' = Event("callback")
    /\ UNCHANGED << Unopened, status >>

\* fn returns directResult, and the executor runs to its end
FnReturns ==
    /\ status = "running"
    /\ \E directResult \in Results :
          mirror' = directReturn(IF directResult = Undefined THEN mirror
                                 ELSE Offered(mirror, "return", directResult),
                                 directResult)
    /\ status' = "returned"
    /\ last' = Event("return")
    /\ UNCHANGED Unopened

\* fn throws
FnThrows ==
    /\ status = "running"
    /\ mirror' = executorThrew(Offered(mirror, "throw", Thrown), Thrown)
    /\ status' = "thrown"
    /\ last' = Event("throw")
    /\ UNCHANGED Unopened

\* the callback is invoked after fn has returned or thrown
CallbackLater ==
    /\ status \in {"returned", "thrown"}
    /\ mirror.callbacks < MaxCallbacks
    /\ \E result \in Results :
          mirror' = [callback(Offered(mirror, "callback", result), result)
                        EXCEPT !.callbacks = @ + 1]
    /\ last' = Event("callbackLater")
    /\ UNCHANGED << Unopened, status >>

NextAsync == CallFn \/ CallbackSync \/ FnReturns \/ FnThrows \/ CallbackLater

SpecAsync == InitAsync /\ [][NextAsync]_vars

\* C29: the promise of callSwissephAsync is settled at most once.  When fn
\* both returns a defined value and invokes the callback, in either order
\* and whether the callback runs while fn runs or later, the first of the
\* outcomes settles the promise and the others are ignored: the wrapper
\* calls resolve or reject at most once, and the promise is pending while
\* no outcome came and otherwise is what the first outcome makes it,
\* rejected with its error when the error field is truthy and fulfilled
\* with the outcome in every other case.
C29_SettledOnce ==
    /\ mirror.calls <= 1
    /\ mirror.outcomes = <<>> => mirror.state = "pending"
    /\ mirror.outcomes # <<>> =>
          \E first \in {mirror.outcomes[1]} :
              IF first.kind = "throw"
              THEN mirror.state = "rejected" /\ mirror.value = Thrown
              ELSE IF first.result.v = "object" /\ first.result.error # ""
              THEN /\ mirror.state = "rejected"
                   /\ mirror.value = [v |-> "Error", error |-> first.result.error]
              ELSE mirror.state = "fulfilled" /\ mirror.value = first.result

\* fn invoked the callback while it ran, then returned an object with an
\* error, and the callback came once more: the promise keeps the first
C29_Witness ==
    /\ status = "returned"
    /\ Len(mirror.outcomes) = 3
    /\ mirror.outcomes[1] = [kind |-> "callback", result |-> [v |-> "object", error |-> ""]]
    /\ mirror.outcomes[2] = [kind |-> "return", result |-> [v |-> "object", error |-> "E1"]]
    /\ mirror.outcomes[3].kind = "callback"
    /\ mirror.state = "fulfilled"

(***************************************************************************)
(* SpecGolden: validateGoldenReference(testCases, referenceInput) as a     *)
(* function of its inputs, held in mirror; the call is recorded in last.   *)
(* Angles are whole millionths of a degree.  A test case carries its id    *)
(* ("" when it has none) and swiss, the ten positions the Swiss Ephemeris  *)
(* library computes for it.                                                *)
(***************************************************************************)
MaxCases == 2

\* 360 degrees
Turn == 360000000

\* TOLERANCES, in the order of Object.keys
TOLERANCES ==
    << [body |-> "Sun", tol |-> 1], [body |-> "Moon", tol |-> 3],
       [body |-> "Mercury", tol |-> 2], [body |-> "Venus", tol |-> 2],
       [body |-> "Mars", tol |-> 2], [body |-> "Jupiter", tol |-> 2],
       [body |-> "Saturn", tol |-> 2], [body |-> "Rahu", tol |-> 5],
       [body |-> "Ketu", tol |-> 5], [body |-> "Ascendant", tol |-> 10] >>

\* Math.min(diff, 360 - diff) of the normalised angles; an angle is
\* Some(a), or NULL for undefined, and the result is NULL for NaN
angularDiff(a, b) ==
    IF a = NULL \/ b = NULL THEN NULL
    ELSE LET diff == Abs(JsRem(JsRem(a[1], Turn) + Turn, Turn)
                           - JsRem(JsRem(b[1], Turn) + Turn, Turn))
         IN  Some(IF diff <= Turn - diff THEN diff ELSE Turn - diff)

\* testCase.id || `case-${i + 1}` for the i-th test case (i from 1)
CaseId(testCases, i) ==
    IF testCases[i].id # "" THEN testCases[i].id
    ELSE << "case-1", "case-2", "case-3" >>[i]

\* referenceMap.get(id): the last entry with that id, or NULL
MapGet(cases, id) ==
    LET at == {k \in 1..Len(cases) : cases[k].id = id}
    IN  IF at = {} THEN NULL ELSE Some(cases[CHOOSE k \in at : \A j \in at : j <= k])

\* the body of Object.keys(TOLERANCES).forEach for the k-th body; acc holds
\* bodyResults, casePassed, caseFailed and the four totals
compareBody(acc, k, expected, actualBodies) ==
    LET diff == angularDiff(actualBodies[k], expected.bodies[k])
        pass == diff # NULL /\ diff[1] <= TOLERANCES[k].tol
    IN  [bodyResults |-> Append(acc.bodyResults,
                                [body |-> TOLERANCES[k].body, pass |-> pass, diff |-> diff,
                                 expected |-> expected.bodies[k],
                                 actual |-> actualBodies[k]]),
         casePassed  |-> acc.casePassed + (IF pass THEN 1 ELSE 0),
         caseFailed  |-> acc.caseFailed + (IF pass THEN 0 ELSE 1),
         totalBodies |-> acc.totalBodies + 1,
         totalPassed |-> acc.totalPassed + (IF pass THEN 1 ELSE 0),
         totalFailed |-> acc.totalFailed + (IF pass THEN 0 ELSE 1),
         maxDiff     |-> IF diff # NULL /\ diff[1] > acc.maxDiff THEN diff[1] ELSE acc.maxDiff,
         results     |-> acc.results]

RECURSIVE compareBodies(_, _, _, _)
compareBodies(acc, k, expected, actualBodies) ==
    IF k > Len(TOLERANCES) THEN acc
    ELSE compareBodies(compareBody(acc, k, expected, actualBodies), k + 1,
                       expected, actualBodies)

\* a test case without reference entry counted as one failed body
missingCase_countsFailed(acc, id) ==
    [acc EXCEPT !.results = Append(@, [id |-> id, error |-> "Missing reference data"]),
                !.totalFailed = @ + 1]

\* results.push({id, error}); continue
missingCase(acc, id) ==
    [acc EXCEPT !.results = Append(@, [id |-> id, error |-> "Missing reference data"])]

\* the rest of the loop body for a test case with the reference entry
\* expected
comparedCase(acc, id, expected, actualBodies) ==
    LET done == compareBodies([acc EXCEPT !.bodyResults = <<>>, !.casePassed = 0,
                                          !.caseFailed = 0],
                              1, expected, actualBodies)
    IN  [done EXCEPT !.results = Append(@, [id |-> id, passed |-> done.casePassed,
                                            failed |-> done.caseFailed,
                                            results |-> done.bodyResults])]

\* for (i = 0; i < testCases.length; i += 1), from the i-th test case on
RECURSIVE eachCase(_, _, _, _)
eachCase(acc, testCases, cases, i) ==
    IF i > Len(testCases) THEN acc
    ELSE eachCase(IF MapGet(cases, CaseId(testCases, i)) = NULL
                  THEN missingCase(acc, CaseId(testCases, i))
                  ELSE comparedCase(acc, CaseId(testCases, i),
                                    MapGet(cases, CaseId(testCases, i))[1],
                                    testCases[i].swiss),
                  testCases, cases, i + 1)

\* the report returned, or the Error thrown for a reference that is missing
\* or has no array of cases
validateGoldenReference(testCases, reference) ==
    IF reference = NULL \/ "cases" \notin DOMAIN reference[1]
    THEN [err |-> "Reference data missing or invalid", out |-> <<>>]
    ELSE LET acc == eachCase([bodyResults |-> <<>>, casePassed |-> 0, caseFailed |-> 0,
                              totalBodies |-> 0, totalPassed |-> 0, totalFailed |-> 0,
                              maxDiff |-> 0, results |-> <<>>],
                             testCases, reference[1].cases, 1)
         IN  [err |-> NoError,
              out |-> [summary |-> [total_cases |-> Len(testCases),
                                    total_bodies |-> acc.totalBodies,
                                    passed |-> acc.totalPassed,
                                    failed |-> acc.totalFailed,
                                    max_diff |-> acc.maxDiff],
                       cases |-> acc.results]]

\* the positions of a reference entry: body k at 10 k degrees, and the
\* same with the Ascendant left out
RefBodies == [k \in 1..10 |-> Some(k * (Turn \div 36))]
RefBodiesShort == [k \in 1..10 |-> IF k = 10 THEN NULL ELSE Some(k * (Turn \div 36))]

\* what the library computes: the reference positions, or positions 2 or
\* 4 millionths of a degree away from them (the latter across 0 degrees)
SwissBodies ==
    {[k \in 1..10 |-> Some(k * (Turn \div 36) + d - (IF d = 4 THEN Turn ELSE 0))] :
        d \in {0, 2, 4}}

TestCases ==
    UNION {[1..n -> [id : {"", "a", "b"}, swiss : SwissBodies]] : n \in 0..MaxCases}

References ==
    { NULL, Some([generated_at |-> "t"]), Some([cases |-> <<>>]),
      Some([cases |-> << [id |-> "a", bodies |-> RefBodies] >>]),
      Some([cases |-> << [id |-> "a", bodies |-> RefBodiesShort],
                         [id |-> "case-2", bodies |-> RefBodies] >>]),
      Some([cases |-> << [id |-> "b", bodies |-> RefBodies],
                         [id |-> "a", bodies |-> RefBodiesShort],
                         [id |-> "a", bodies |-> RefBodies] >>]) }

InitGolden ==
    /\ InitHandle(<<>>)
    /\ mirror \in [testCases : TestCases, reference : References]

ValidateGoldenReference ==
    /\ last.op = "none"
    /\ \E r \in {validateGoldenReference(mirror.testCases, mirror.reference)} :
          last' = [op |-> "validateGoldenReference", ipli |-> 0, tjd |-> 0,
                   err |-> r.err, out |-> r.out, log |-> <<>>]
    /\ UNCHANGED << Unopened, status, mirror >>

NextGolden == ValidateGoldenReference

SpecGolden == InitGolden /\ [][NextGolden]_vars

\* the test cases whose id has an entry in the reference
Referenced ==
    {i \in 1..Len(mirror.testCases) :
        \E k \in 1..Len(mirror.reference[1].cases) :
            mirror.reference[1].cases[k].id = CaseId(mirror.testCases, i)}

\* C30: in the report of validateGoldenReference, summary.passed +
\* summary.failed = summary.total_bodies, total_bodies is 10 times the
\* number of test cases whose id has a reference entry, total_cases is the
\* number of test cases, every compared case has passed + failed = 10, and
\* a test case without reference entry gives one error entry and nothing
\* in the counts.
C30_ReportCounts ==
    (last.op = "validateGoldenReference" /\ last.err = NoError) =>
        \E report \in {last.out} :
            /\ report.summary.passed + report.summary.failed = report.summary.total_bodies
            /\ report.summary.total_bodies = 10 * Cardinality(Referenced)
            /\ report.summary.total_cases = Len(mirror.testCases)
            /\ Len(report.cases) = Len(mirror.testCases)
            /\ \A i \in 1..Len(report.cases) :
                  /\ report.cases[i].id = CaseId(mirror.testCases, i)
                  /\ i \in Referenced =>
                        /\ DOMAIN report.cases[i] = {"id", "passed", "failed", "results"}
                        /\ report.cases[i].passed + report.cases[i].failed = 10
                        /\ Len(report.cases[i].results) = 10
                  /\ i \notin Referenced =>
                        report.cases[i] = [id |-> CaseId(mirror.testCases, i),
                                           error |-> "Missing reference data"]
            /\ report.summary.passed
                 = SumOf([i \in 1..Len(report.cases) |->
                            IF i \in Referenced THEN report.cases[i].passed ELSE 0])

\* a report on two test cases, one compared with bodies that pass and
\* bodies that fail, the other without reference entry
C30_Witness ==
    /\ last.op = "validateGoldenReference"
    /\ last.err = NoError
    /\ Len(mirror.testCases) = 2
    /\ Referenced = {1}
    /\ last.out.cases[1].passed = 3
    /\ last.out.cases[1].failed = 7
    /\ last.out.summary.total_bodies = 10
====
